---------------------------- MODULE Spec2Model ----------------------------
(***************************************************************************)
(* A model of the chameleon schedule generator                              *)
(* (rust/src/schedule/{intervals,counter_mapper,schedule}.rs).              *)
(*                                                                          *)
(* The generator is built once by ScheduleGenerator::new from terminal,     *)
(* truck and booking data, gets its driving-time matrix from                *)
(* set_driving_times, and then transforms schedules with four mutation      *)
(* operators.  A schedule is a value: every operator returns Some(new       *)
(* schedule), None, or aborts the process on a failed assertion / unwrap.   *)
(***************************************************************************)
EXTENDS Integers, Sequences, FiniteSets, TLC

VARIABLES
    args,           \* the arguments of ScheduleGenerator::new
    generator,      \* the ScheduleGenerator (immutable after construction)
    schedule,       \* the Schedule currently held by the caller
    last,           \* the last operator call and its outcome
    nb,             \* the get_schedule_neighbour call in progress
    counter_mapper, \* a CounterMapper on its own
    interval_chain  \* an IntervalWithDataChain on its own

vars == <<args, generator, schedule, last, nb, counter_mapper, interval_chain>>

\* The two library objects that the generator's state machines leave alone.
objects == <<counter_mapper, interval_chain>>

---------------------------------------------------------------------------
(* Option<T> and the three ways an operator call can end.                  *)

None == [kind |-> "none"]

Some(v) == [kind |-> "some", value |-> v]

Panic == [kind |-> "panic"]

Min2(a, b) == IF a <= b THEN a ELSE b

Max2(a, b) == IF a >= b THEN a ELSE b

SetMin(S) == CHOOSE x \in S : \A y \in S : x <= y

SetMax(S) == CHOOSE x \in S : \A y \in S : x >= y

\* Vec::insert(index, v) with a 0-based index i (i = Len(s) appends).
VecInsert(s, i, v) == SubSeq(s, 1, i) \o <<v>> \o SubSeq(s, i + 1, Len(s))

\* Vec::remove(index) with a 1-based position k.
VecRemove(s, k) == SubSeq(s, 1, k - 1) \o SubSeq(s, k + 1, Len(s))

\* BTreeMap::insert(k, v)
MapInsert(m, k, v) == [x \in (DOMAIN m) \cup {k} |-> IF x = k THEN v ELSE m[x]]

\* BTreeMap::remove(k)
MapRemove(m, k) == [x \in (DOMAIN m) \ {k} |-> m[x]]

EmptyMap == [x \in {} |-> 0]

---------------------------------------------------------------------------
(* intervals.rs                                                            *)

\* Time is u64; the model keeps Time::MAX inside TLC's integer range.
TimeMIN == 0

TimeMAX == 2147483647

Unit == <<>>

\* IntervalWithData::new: None when the length is non-positive.
interval_new(start_time, end_time, additional_data) ==
    IF start_time >= end_time
    THEN None
    ELSE Some([start_time |-> start_time, end_time |-> end_time,
               additional_data |-> additional_data])

\* IntervalWithDataChain::new
chain_new == <<>>

\* IntervalWithDataChain::from_interval
from_interval(interval) == <<interval>>

\* IntervalWithDataChain::intersect: the two chains are walked in lock-step
\* (self_it.next().zip(other_it.next())), the k-th interval of one against
\* the k-th interval of the other.
intersect(self, other) ==
    LET n == Min2(Len(self), Len(other))
        hit(k) == /\ other[k].end_time > self[k].start_time
                  /\ self[k].end_time > other[k].start_time
        piece(k) == [start_time |-> Max2(self[k].start_time, other[k].start_time),
                     end_time |-> Min2(self[k].end_time, other[k].end_time),
                     additional_data |-> self[k].additional_data]
        F[k \in 0..n] ==
            IF k = 0 THEN <<>>
            ELSE IF hit(k) THEN Append(F[k - 1], piece(k)) ELSE F[k - 1]
    IN  F[n]

\* IntervalWithDataChainIter::intersect_all: a fold of intersect that starts
\* from the chain holding [Time::MIN, Time::MAX).
intersect_all(chains) ==
    LET largest_interval == [start_time |-> TimeMIN, end_time |-> TimeMAX,
                             additional_data |-> Unit]
        F[k \in 0..Len(chains)] ==
            IF k = 0 THEN from_interval(largest_interval)
            ELSE intersect(F[k - 1], chains[k])
    IN  F[Len(chains)]

\* IntervalWithDataChain::contained_in: looks at intervals.first() only.
contained_in(self, other) ==
    IF Len(self) = 0
    THEN TRUE
    ELSE /\ other.start_time <= self[1].start_time
         /\ self[1].end_time <= other.end_time

\* IntervalWithDataChain::gaps: one pass over the intervals; an interval that
\* starts at or before previous_end_time is skipped by `continue`, which
\* leaves previous_end_time and previous_additional_data as they were.
gaps(self, other) ==
    LET start_time == other.start_time
        end_time == other.end_time
        F[k \in 0..Len(self)] ==
            IF k = 0
            THEN [out |-> <<>>, previous_additional_data |-> None,
                  previous_end_time |-> start_time, broke |-> FALSE]
            ELSE LET st == F[k - 1]
                     interval == self[k]
                 IN  IF st.broke \/ interval.start_time <= st.previous_end_time
                     THEN st
                     ELSE [out |-> Append(st.out,
                               [start_time |-> st.previous_end_time,
                                end_time |-> interval.start_time,
                                additional_data |->
                                    <<st.previous_additional_data,
                                      Some(interval.additional_data)>>]),
                           previous_additional_data |->
                               Some(interval.additional_data),
                           previous_end_time |-> interval.end_time,
                           broke |-> end_time <= interval.end_time]
        st == F[Len(self)]
    IN  IF st.previous_end_time < end_time
        THEN Append(st.out, [start_time |-> st.previous_end_time,
                             end_time |-> end_time,
                             additional_data |->
                                 <<st.previous_additional_data, None>>])
        ELSE st.out

\* IntervalWithDataChain::try_add: the chain after the call and the returned
\* flag.  position() finds the first interval starting at or after new's end;
\* when there is none, the new interval is pushed without any comparison.
try_add(self, new_interval) ==
    LET after == {k \in 1..Len(self) : self[k].start_time >= new_interval.end_time}
    IN  IF after # {}
        THEN LET index == SetMin(after) - 1
             IN  IF index > 0 /\ ~(self[index].end_time <= new_interval.start_time)
                 THEN [ok |-> FALSE, chain |-> self]
                 ELSE [ok |-> TRUE, chain |-> VecInsert(self, index, new_interval)]
        ELSE [ok |-> TRUE, chain |-> Append(self, new_interval)]

\* Set -> sequence in ascending order (BTreeSet / BTreeMap iteration order).
RECURSIVE SortedSeq(_)
SortedSeq(S) ==
    IF S = {} THEN <<>>
    ELSE LET m == SetMin(S) IN <<m>> \o SortedSeq(S \ {m})

---------------------------------------------------------------------------
(* counter_mapper.rs                                                       *)

\* CounterMapper::new
mapper_new == [counter |-> 0, map |-> EmptyMap, reverse_map |-> EmptyMap]

\* add_or_find that forgets to advance the counter.
add_or_find_same_counter(mapper, new_item) ==
    IF new_item \in DOMAIN mapper.reverse_map
    THEN [mapper |-> mapper, index |-> mapper.reverse_map[new_item]]
    ELSE [mapper |-> [counter |-> mapper.counter,
                      map |-> MapInsert(mapper.map, mapper.counter, new_item),
                      reverse_map |-> MapInsert(mapper.reverse_map, new_item,
                                                mapper.counter)],
          index |-> mapper.counter]

\* CounterMapper::add_or_find: the mapper after the call and the index.
add_or_find(mapper, new_item) ==
    IF new_item \in DOMAIN mapper.reverse_map
    THEN [mapper |-> mapper, index |-> mapper.reverse_map[new_item]]
    ELSE [mapper |-> [counter |-> mapper.counter + 1,
                      map |-> MapInsert(mapper.map, mapper.counter, new_item),
                      reverse_map |-> MapInsert(mapper.reverse_map, new_item,
                                                mapper.counter)],
          index |-> mapper.counter]

---------------------------------------------------------------------------
(* schedule.rs: ScheduleGenerator::new                                     *)
(*                                                                         *)
(* The BTreeMap arguments are given as sequences in key order, which is    *)
(* the order the constructor iterates them in:                             *)
(*   terminal_data : <<[id, opening_time, closing_time], ...>>             *)
(*   truck_data    : <<[id, starting_terminal, max_weight_kg, max_teu]>>   *)
(*   booking_data  : <<PyBooking, ...>>                                    *)
(*   planning_period : <<start, end>>                                      *)

Err == [kind |-> "err"]

\* interval_or_error: Ok(interval) or the PyTypeError.
interval_or_error(start_time, end_time) ==
    LET interval == interval_new(start_time, end_time, Unit)
    IN  IF interval.kind = "some" THEN [kind |-> "ok", value |-> interval.value]
        ELSE Err

\* The loop over terminal_data (lines 996-1006).
new_terminal_loop(terminal_data) ==
    LET F[k \in 0..Len(terminal_data)] ==
            IF k = 0
            THEN [kind |-> "ok", terminal_mapper |-> mapper_new,
                  terminal_open_intervals |-> EmptyMap]
            ELSE LET st == F[k - 1]
                     e == terminal_data[k]
                     found == add_or_find(st.terminal_mapper, e.id)
                     interval == interval_or_error(e.opening_time, e.closing_time)
                 IN  IF st.kind # "ok" THEN st
                     ELSE IF interval.kind = "err" THEN Err
                     ELSE [kind |-> "ok", terminal_mapper |-> found.mapper,
                           terminal_open_intervals |->
                               MapInsert(st.terminal_open_intervals, found.index,
                                         from_interval(interval.value))]
    IN  F[Len(terminal_data)]

\* Mutant of new_truck_loop: the starting terminals are interned but not
\* inserted into the terminals set.
new_truck_loop_start_left_out(truck_data, terminal_mapper) ==
    LET F[k \in 0..Len(truck_data)] ==
            IF k = 0
            THEN [truck_mapper |-> mapper_new, terminal_mapper |-> terminal_mapper,
                  trucks |-> {}, terminals |-> {}]
            ELSE LET st == F[k - 1]
                     e == truck_data[k]
                     truck == add_or_find(st.truck_mapper, e.id)
                     starting_terminal ==
                         add_or_find(st.terminal_mapper, e.starting_terminal)
                 IN  [truck_mapper |-> truck.mapper,
                      terminal_mapper |-> starting_terminal.mapper,
                      trucks |-> st.trucks \cup {truck.index},
                      terminals |-> st.terminals]
    IN  F[Len(truck_data)]

\* The loop over truck_data (lines 1008-1019).
new_truck_loop(truck_data, terminal_mapper) ==
    LET F[k \in 0..Len(truck_data)] ==
            IF k = 0
            THEN [truck_mapper |-> mapper_new, terminal_mapper |-> terminal_mapper,
                  trucks |-> {}, terminals |-> {}]
            ELSE LET st == F[k - 1]
                     e == truck_data[k]
                     truck == add_or_find(st.truck_mapper, e.id)
                     starting_terminal ==
                         add_or_find(st.terminal_mapper, e.starting_terminal)
                 IN  [truck_mapper |-> truck.mapper,
                      terminal_mapper |-> starting_terminal.mapper,
                      trucks |-> st.trucks \cup {truck.index},
                      terminals |-> st.terminals \cup {starting_terminal.index}]
    IN  F[Len(truck_data)]

\* Mutant of new_booking_step: the terminals are inserted before the test
\* for empty windows.
new_booking_step_terminals_first(st, booking, terminal_open_intervals, planning_chain) ==
    LET from_found == add_or_find(st.terminal_mapper, booking.from_terminal)
        to_found == add_or_find(from_found.mapper, booking.to_terminal)
        from_terminal == from_found.index
        to_terminal == to_found.index
        pickup_window == interval_or_error(booking.pickup_open_time,
                                           booking.pickup_close_time)
        dropoff_window == interval_or_error(booking.dropoff_open_time,
                                            booking.dropoff_close_time)
        pickup_intervals ==
            intersect_all(<<terminal_open_intervals[from_terminal],
                            from_interval(pickup_window.value), planning_chain>>)
        dropoff_intervals ==
            intersect_all(<<terminal_open_intervals[to_terminal],
                            from_interval(dropoff_window.value), planning_chain>>)
        seen == [st EXCEPT !.terminal_mapper = to_found.mapper,
                           !.terminals = @ \cup {from_terminal, to_terminal}]
        cargo == add_or_find(st.cargo_mapper, booking.cargo)
        booking_info == [from |-> from_terminal, to |-> to_terminal,
                         weight_kg |-> booking.cargo_weight_kg,
                         teu |-> booking.cargo_teu]
        key == <<from_terminal, to_terminal>>
        old_set == IF key \in DOMAIN st.cargo_by_terminals
                   THEN st.cargo_by_terminals[key] ELSE {}
    IN  IF from_terminal \notin DOMAIN terminal_open_intervals THEN Panic
        ELSE IF pickup_window.kind = "err" THEN Err
        ELSE IF to_terminal \notin DOMAIN terminal_open_intervals THEN Panic
        ELSE IF dropoff_window.kind = "err" THEN Err
        ELSE IF pickup_intervals = <<>> \/ dropoff_intervals = <<>> THEN seen
        ELSE [kind |-> "ok",
              terminal_mapper |-> to_found.mapper,
              cargo_mapper |-> cargo.mapper,
              terminals |-> st.terminals \cup {from_terminal, to_terminal},
              pickup_times |-> MapInsert(st.pickup_times, cargo.index,
                                         pickup_intervals),
              dropoff_times |-> MapInsert(st.dropoff_times, cargo.index,
                                          dropoff_intervals),
              cargo_by_terminals |->
                  MapInsert(st.cargo_by_terminals, key,
                            old_set \cup {cargo.index}),
              cargo_booking_info |->
                  MapInsert(st.cargo_booking_info, cargo.index, booking_info)]

\* One iteration of the loop over booking_data (lines 1028-1094).
new_booking_step(st, booking, terminal_open_intervals, planning_chain) ==
    LET from_found == add_or_find(st.terminal_mapper, booking.from_terminal)
        to_found == add_or_find(from_found.mapper, booking.to_terminal)
        from_terminal == from_found.index
        to_terminal == to_found.index
        pickup_window == interval_or_error(booking.pickup_open_time,
                                           booking.pickup_close_time)
        dropoff_window == interval_or_error(booking.dropoff_open_time,
                                            booking.dropoff_close_time)
        pickup_intervals ==
            intersect_all(<<terminal_open_intervals[from_terminal],
                            from_interval(pickup_window.value), planning_chain>>)
        dropoff_intervals ==
            intersect_all(<<terminal_open_intervals[to_terminal],
                            from_interval(dropoff_window.value), planning_chain>>)
        seen == [st EXCEPT !.terminal_mapper = to_found.mapper]
        cargo == add_or_find(st.cargo_mapper, booking.cargo)
        booking_info == [from |-> from_terminal, to |-> to_terminal,
                         weight_kg |-> booking.cargo_weight_kg,
                         teu |-> booking.cargo_teu]
        key == <<from_terminal, to_terminal>>
        old_set == IF key \in DOMAIN st.cargo_by_terminals
                   THEN st.cargo_by_terminals[key] ELSE {}
    IN  IF from_terminal \notin DOMAIN terminal_open_intervals THEN Panic
        ELSE IF pickup_window.kind = "err" THEN Err
        ELSE IF to_terminal \notin DOMAIN terminal_open_intervals THEN Panic
        ELSE IF dropoff_window.kind = "err" THEN Err
        ELSE IF pickup_intervals = <<>> \/ dropoff_intervals = <<>> THEN seen
        ELSE [kind |-> "ok",
              terminal_mapper |-> to_found.mapper,
              cargo_mapper |-> cargo.mapper,
              terminals |-> st.terminals \cup {from_terminal, to_terminal},
              pickup_times |-> MapInsert(st.pickup_times, cargo.index,
                                         pickup_intervals),
              dropoff_times |-> MapInsert(st.dropoff_times, cargo.index,
                                          dropoff_intervals),
              cargo_by_terminals |->
                  MapInsert(st.cargo_by_terminals, key,
                            old_set \cup {cargo.index}),
              cargo_booking_info |->
                  MapInsert(st.cargo_booking_info, cargo.index, booking_info)]

\* The loop over booking_data.
new_booking_loop(booking_data, terminal_mapper, terminals, terminal_open_intervals, planning_chain) ==
    LET F[k \in 0..Len(booking_data)] ==
            IF k = 0
            THEN [kind |-> "ok", terminal_mapper |-> terminal_mapper,
                  cargo_mapper |-> mapper_new, terminals |-> terminals,
                  pickup_times |-> EmptyMap, dropoff_times |-> EmptyMap,
                  cargo_by_terminals |-> EmptyMap,
                  cargo_booking_info |-> EmptyMap]
            ELSE IF F[k - 1].kind # "ok" THEN F[k - 1]
            ELSE new_booking_step(F[k - 1], booking_data[k],
                                  terminal_open_intervals, planning_chain)
    IN  F[Len(booking_data)]

\* The map building truck_data (lines 1096-1124); Panic when a starting
\* terminal has no opening hours (unwrap of a missing key).
new_truck_data(truck_data, truck_mapper, terminal_mapper, terminal_open_intervals) ==
    LET start_of(e) == terminal_mapper.reverse_map[e.starting_terminal]
        ok == \A k \in 1..Len(truck_data) :
                  start_of(truck_data[k]) \in DOMAIN terminal_open_intervals
    IN  IF ~ok THEN Panic
        ELSE [kind |-> "ok",
              value |->
                [truck \in {truck_mapper.reverse_map[truck_data[k].id] :
                              k \in 1..Len(truck_data)} |->
                    LET e == truck_data[CHOOSE k \in 1..Len(truck_data) :
                                 truck_mapper.reverse_map[truck_data[k].id] = truck]
                    IN  [starting_terminal |-> start_of(e),
                         start_time |->
                             terminal_open_intervals[start_of(e)][1].start_time,
                         max_weight_kg |-> e.max_weight_kg,
                         max_teu |-> e.max_teu]]]

\* ScheduleGenerator::new: [kind |-> "ok", value |-> generator], Err or Panic.
new(terminal_data, truck_data, booking_data, planning_period) ==
    LET period == interval_or_error(planning_period[1], planning_period[2])
        planning_chain == from_interval(period.value)
        t == new_terminal_loop(terminal_data)
        tr == new_truck_loop(truck_data, t.terminal_mapper)
        b == new_booking_loop(booking_data, tr.terminal_mapper, tr.terminals,
                              t.terminal_open_intervals, planning_chain)
        td == new_truck_data(truck_data, tr.truck_mapper, b.terminal_mapper,
                             t.terminal_open_intervals)
    IN  IF period.kind = "err" THEN Err
        ELSE IF t.kind # "ok" THEN t
        ELSE IF b.kind # "ok" THEN b
        ELSE IF td.kind # "ok" THEN td
        ELSE [kind |-> "ok",
              value |-> [driving_times_cache |-> EmptyMap,
                         cargo_by_terminals |-> b.cargo_by_terminals,
                         pickup_times |-> b.pickup_times,
                         dropoff_times |-> b.dropoff_times,
                         cargo_booking_info |-> b.cargo_booking_info,
                         terminals |-> b.terminals,
                         trucks |-> tr.trucks,
                         truck_data |-> td.value,
                         planning_period |-> period.value,
                         terminal_mapper |-> b.terminal_mapper,
                         cargo_mapper |-> b.cargo_mapper,
                         truck_mapper |-> tr.truck_mapper]]

\* ScheduleGenerator::get_terminal_ids
get_terminal_ids(gen) ==
    LET order == SortedSeq(gen.terminals)
    IN  [k \in 1..Len(order) |-> gen.terminal_mapper.map[order[k]]]

\* ScheduleGenerator::set_driving_times.  driving_times maps a terminal id
\* to its row, given in the order of terminal_id_order.  The assertion
\* *time >= 0 aborts (Panic).
set_driving_times(gen, terminal_id_order, driving_times) ==
    LET cells == {<<from_id, to_index>> \in
                      (DOMAIN driving_times) \X (1..Len(terminal_id_order)) :
                      to_index <= Len(driving_times[from_id])}
        key(c) == <<gen.terminal_mapper.reverse_map[c[1]],
                    gen.terminal_mapper.reverse_map[terminal_id_order[c[2]]]>>
        data == [p \in {key(c) : c \in cells} |->
                    LET c == CHOOSE c \in cells : key(c) = p
                    IN  driving_times[c[1]][c[2]]]
    IN  IF \E c \in cells : driving_times[c[1]][c[2]] < 0 THEN Panic
        ELSE [kind |-> "ok",
              value |-> [gen EXCEPT !.driving_times_cache = data]]

\* ScheduleGenerator::empty_schedule
empty_schedule(gen) ==
    [truck_checkpoints |-> [truck \in gen.trucks |-> <<>>],
     scheduled_cargo_truck |-> EmptyMap,
     truck_driving_times |-> [truck \in gen.trucks |-> 0]]

---------------------------------------------------------------------------
(* schedule.rs: Schedule queries                                           *)
(*                                                                         *)
(* A Checkpoint is [time, terminal, pickup_cargo, dropoff_cargo,           *)
(* available_teu, available_weight_kg].  Vec positions are 1-based here;   *)
(* an Option<&Checkpoint> is None or Some(checkpoint).                     *)

\* iter().find(p): the first element in list order that satisfies p;
\* matching is the set of positions whose element satisfies p.
FindFirst(checkpoints, matching) ==
    IF matching = {} THEN None ELSE Some(checkpoints[SetMin(matching)])

\* iter().rev().find(p): the last element in list order that satisfies p.
FindLast(checkpoints, matching) ==
    IF matching = {} THEN None ELSE Some(checkpoints[SetMax(matching)])

\* Schedule::get_prev_and_next_checkpoints (both comparisons strict).
get_prev_and_next_checkpoints(sched, truck, checkpoint) ==
    LET checkpoints == sched.truck_checkpoints[truck]
        before == {k \in 1..Len(checkpoints) :
                      checkpoints[k].time < checkpoint.time}
        after == {k \in 1..Len(checkpoints) :
                     checkpoints[k].time > checkpoint.time}
    IN  <<FindLast(checkpoints, before), FindFirst(checkpoints, after)>>

\* get_checkpoints_around_gap with the strict comparison of
\* get_prev_and_next_checkpoints on both sides.
get_checkpoints_around_gap_strict(sched, truck, time) ==
    LET checkpoints == sched.truck_checkpoints[truck]
        before == {k \in 1..Len(checkpoints) : checkpoints[k].time < time}
        after == {k \in 1..Len(checkpoints) : checkpoints[k].time > time}
    IN  <<FindLast(checkpoints, before), FindFirst(checkpoints, after)>>

\* Schedule::get_checkpoints_around_gap (prev weak, next strict).
get_checkpoints_around_gap(sched, truck, time) ==
    LET checkpoints == sched.truck_checkpoints[truck]
        before == {k \in 1..Len(checkpoints) : checkpoints[k].time <= time}
        after == {k \in 1..Len(checkpoints) : checkpoints[k].time > time}
    IN  <<FindLast(checkpoints, before), FindFirst(checkpoints, after)>>

---------------------------------------------------------------------------
(* schedule.rs: driving times                                              *)

\* DrivingTimesCache::get_driving_time: a missing pair reaches
\* unimplemented!() and a negative entry fails assert!(out >= 0).
cache_get_driving_time(data, from, to) ==
    IF from = to THEN Some(0)
    ELSE IF <<from, to>> \notin DOMAIN data THEN Panic
    ELSE IF data[<<from, to>>] < 0 THEN Panic
    ELSE Some(data[<<from, to>>])

\* ScheduleGenerator::scores: the outcomes of the driving-time look-ups made
\* for min_driving_time, one per scheduled cargo.
scores_lookups(gen, sched) ==
    {cache_get_driving_time(gen.driving_times_cache,
                            gen.cargo_booking_info[cargo].from,
                            gen.cargo_booking_info[cargo].to) :
        cargo \in DOMAIN sched.scheduled_cargo_truck}

\* ScheduleGenerator::get_driving_time; from and to are Option<Terminal>.
get_driving_time(gen, from, to, truck) ==
    LET from_terminal == IF from.kind = "some" THEN from.value
                         ELSE gen.truck_data[truck].starting_terminal
    IN  IF to.kind = "some"
        THEN cache_get_driving_time(gen.driving_times_cache, from_terminal,
                                    to.value)
        ELSE Some(0)

\* u64::checked_add_signed
checked_add_signed(time, delta) ==
    IF time + delta < 0 \/ time + delta > TimeMAX THEN None
    ELSE Some(time + delta)

\* Mutant of checked_sub: the subtraction is not checked.
unchecked_sub(a, b) == Some(a - b)

\* usize::checked_sub
checked_sub(a, b) == IF a - b < 0 THEN None ELSE Some(a - b)

\* ScheduleGenerator::get_driving_time_constraints: Some(interval), None
\* when the interval is empty, Panic when a checked addition is unwrapped
\* on None.
get_driving_time_constraints(gen, truck, prev_checkpoint, next_checkpoint, new_terminal) ==
    LET prev_terminal == IF prev_checkpoint.kind = "some"
                         THEN Some(prev_checkpoint.value.terminal) ELSE None
        next_terminal == IF next_checkpoint.kind = "some"
                         THEN Some(next_checkpoint.value.terminal) ELSE None
        prev_time == IF prev_checkpoint.kind = "some"
                     THEN prev_checkpoint.value.time
                     ELSE gen.planning_period.start_time
        next_time == IF next_checkpoint.kind = "some"
                     THEN next_checkpoint.value.time
                     ELSE gen.planning_period.end_time
        driving_time1 == get_driving_time(gen, prev_terminal,
                                          Some(new_terminal), truck)
        driving_time2 == get_driving_time(gen, Some(new_terminal),
                                          next_terminal, truck)
        earliest_checkpoint_time ==
            checked_add_signed(prev_time, driving_time1.value)
        latest_checkpoint_time ==
            checked_add_signed(next_time, -driving_time2.value)
    IN  IF driving_time1.kind = "panic" \/ driving_time2.kind = "panic"
        THEN Panic
        ELSE IF earliest_checkpoint_time.kind = "none" THEN Panic
        ELSE IF latest_checkpoint_time.kind = "none" THEN Panic
        ELSE interval_new(earliest_checkpoint_time.value,
                          latest_checkpoint_time.value, Unit)

\* ScheduleGenerator::get_gap_terminals: <<Terminal, Option<Terminal>>>.
get_gap_terminals(gen, truck, prev_checkpoint, next_checkpoint) ==
    <<IF prev_checkpoint.kind = "some" THEN prev_checkpoint.value.terminal
      ELSE gen.truck_data[truck].starting_terminal,
      IF next_checkpoint.kind = "some"
      THEN Some(next_checkpoint.value.terminal) ELSE None>>

\* Mutant of times_strictly_ascending: the comparison is weak.
times_ascending_weak(checkpoints) ==
    \A k \in 1..(Len(checkpoints) - 1) :
        checkpoints[k].time <= checkpoints[k + 1].time

\* The windows(2) check of strictly ascending times (lines 405-407, 933-938).
times_strictly_ascending(checkpoints) ==
    \A k \in 1..(Len(checkpoints) - 1) :
        checkpoints[k].time < checkpoints[k + 1].time

\* ScheduleGenerator::assert_truck_checkpoints_invariant: TRUE when all
\* three assertions pass.
assert_truck_checkpoints_invariant(gen, sched, truck) ==
    LET checkpoints == sched.truck_checkpoints[truck]
    IN  /\ \A k \in 1..(Len(checkpoints) - 1) :
               checkpoints[k].terminal # checkpoints[k + 1].terminal
        /\ (Len(checkpoints) > 0 =>
               checkpoints[1].terminal #
                   gen.truck_data[truck].starting_terminal)
        /\ times_strictly_ascending(checkpoints)

---------------------------------------------------------------------------
(* schedule.rs: the mutation operators.                                    *)
(*                                                                         *)
(* Each operator is the set of outcomes it can have over all draws of the  *)
(* random engine: Some(new schedule), None or Panic.                       *)

\* Mutant of possible_terminals: a `to` terminal is offered whether or not
\* the truck has visited the `from` terminal.
possible_terminals_any_to(gen, sched, truck, time_to_identify_gap, prev_terminal, next_terminal) ==
    LET unscheduled == (DOMAIN gen.cargo_booking_info) \
                           (DOMAIN sched.scheduled_cargo_truck)
        info(cargo) == gen.cargo_booking_info[cargo]
    IN  {info(cargo).from : cargo \in
            {c \in unscheduled : /\ info(c).from # prev_terminal
                                 /\ Some(info(c).from) # next_terminal}}
        \cup
        {info(cargo).to : cargo \in
            {c \in unscheduled : /\ info(c).to # prev_terminal
                                 /\ Some(info(c).to) # next_terminal}}

\* Mutant of possible_terminals: a pickup terminal is eligible also when the
\* truck is already there.
possible_terminals_from_anywhere(gen, sched, truck, time_to_identify_gap, prev_terminal, next_terminal) ==
    LET unscheduled == (DOMAIN gen.cargo_booking_info) \
                           (DOMAIN sched.scheduled_cargo_truck)
        info(cargo) == gen.cargo_booking_info[cargo]
        at_from(cargo) ==
            LET checkpoints == sched.truck_checkpoints[truck]
                is_from == {k \in 1..Len(checkpoints) :
                               checkpoints[k].terminal = info(cargo).from}
            IN  FindFirst(checkpoints, is_from)
    IN  {info(cargo).from : cargo \in
            {c \in unscheduled : Some(info(c).from) # next_terminal}}
        \cup
        {info(cargo).to : cargo \in
            {c \in unscheduled :
                /\ info(c).to # prev_terminal
                /\ Some(info(c).to) # next_terminal
                /\ at_from(c).kind = "some"
                /\ at_from(c).value.time < time_to_identify_gap}}

\* The candidate terminals of add_random_checkpoint (lines 547-573).
possible_terminals(gen, sched, truck, time_to_identify_gap, prev_terminal, next_terminal) ==
    LET unscheduled == (DOMAIN gen.cargo_booking_info) \
                           (DOMAIN sched.scheduled_cargo_truck)
        info(cargo) == gen.cargo_booking_info[cargo]
        at_from(cargo) ==
            LET checkpoints == sched.truck_checkpoints[truck]
                is_from == {k \in 1..Len(checkpoints) :
                               checkpoints[k].terminal = info(cargo).from}
            IN  FindFirst(checkpoints, is_from)
    IN  {info(cargo).from : cargo \in
            {c \in unscheduled : /\ info(c).from # prev_terminal
                                 /\ Some(info(c).from) # next_terminal}}
        \cup
        {info(cargo).to : cargo \in
            {c \in unscheduled :
                /\ info(c).to # prev_terminal
                /\ Some(info(c).to) # next_terminal
                /\ at_from(c).kind = "some"
                /\ at_from(c).value.time < time_to_identify_gap}}

\* Mutant of driving_time_after_insert: the replaced leg A->C is not
\* subtracted.
driving_time_after_insert_no_split(gen, truck, driving_time, prev_terminal, new_terminal, next_terminal) ==
    LET time_a_to_b == get_driving_time(gen, Some(prev_terminal),
                                        Some(new_terminal), truck)
        time_b_to_c == get_driving_time(gen, Some(new_terminal),
                                        next_terminal, truck)
    IN  IF time_a_to_b.kind = "panic" \/ time_b_to_c.kind = "panic"
        THEN Panic
        ELSE Some(driving_time + (time_a_to_b.value + time_b_to_c.value))

\* The cached driving time after replacing A->C by A->B->C (lines 625-638).
\* prev_terminal is a Terminal, next_terminal an Option<Terminal>.
driving_time_after_insert(gen, truck, driving_time, prev_terminal, new_terminal, next_terminal) ==
    LET time_a_to_c == get_driving_time(gen, Some(prev_terminal),
                                        next_terminal, truck)
        time_a_to_b == get_driving_time(gen, Some(prev_terminal),
                                        Some(new_terminal), truck)
        time_b_to_c == get_driving_time(gen, Some(new_terminal),
                                        next_terminal, truck)
        updated == (driving_time - time_a_to_c.value)
                       + (time_a_to_b.value + time_b_to_c.value)
    IN  IF \/ time_a_to_c.kind = "panic" \/ time_a_to_b.kind = "panic"
           \/ time_b_to_c.kind = "panic"
        THEN Panic
        ELSE IF updated < 0 THEN Panic
        ELSE Some(updated)

\* Mutant of prev_available: always the truck's maxima.
prev_available_truck_maxima(gen, truck, prev_checkpoint) ==
    <<gen.truck_data[truck].max_teu, gen.truck_data[truck].max_weight_kg>>

\* The capacity left at a checkpoint that loads and unloads nothing: that
\* of the checkpoint before it, or the truck's maxima (lines 597-609).
\* <<available_teu, available_weight_kg>>.
prev_available(gen, truck, prev_checkpoint) ==
    IF prev_checkpoint.kind = "some"
    THEN <<prev_checkpoint.value.available_teu,
           prev_checkpoint.value.available_weight_kg>>
    ELSE <<gen.truck_data[truck].max_teu,
           gen.truck_data[truck].max_weight_kg>>

\* The tail of add_random_checkpoint once terminal and time are drawn
\* (lines 587-640).
insert_checkpoint(gen, sched, truck, prev_checkpoint, prev_terminal, next_terminal, new_terminal, new_time) ==
    LET new_deliveries == sched.truck_checkpoints[truck]
        later == {k \in 1..Len(new_deliveries) :
                      new_deliveries[k].time > new_time}
        new_checkpoint_index ==
            IF later = {} THEN Len(new_deliveries) ELSE SetMin(later) - 1
        available == prev_available(gen, truck, prev_checkpoint)
        new_checkpoint ==
            [time |-> new_time, terminal |-> new_terminal,
             pickup_cargo |-> {}, dropoff_cargo |-> {},
             available_teu |-> available[1],
             available_weight_kg |-> available[2]]
        out == [sched EXCEPT !.truck_checkpoints[truck] =
                   VecInsert(new_deliveries, new_checkpoint_index,
                             new_checkpoint)]
        driving_time ==
            driving_time_after_insert(gen, truck,
                                      sched.truck_driving_times[truck],
                                      prev_terminal, new_terminal,
                                      next_terminal)
    IN  IF ~assert_truck_checkpoints_invariant(gen, out, truck) THEN Panic
        ELSE IF driving_time.kind = "panic" THEN Panic
        ELSE Some([out EXCEPT !.truck_driving_times[truck] =
                       driving_time.value])

\* add_random_checkpoint for one draw of the truck and of
\* time_to_identify_gap (lines 538-640).
add_checkpoint_in_gap(gen, sched, truck, time_to_identify_gap) ==
    LET gap == get_checkpoints_around_gap(sched, truck, time_to_identify_gap)
        prev_checkpoint == gap[1]
        next_checkpoint == gap[2]
        terminals == get_gap_terminals(gen, truck, prev_checkpoint,
                                       next_checkpoint)
        possible == possible_terminals(gen, sched, truck,
                                       time_to_identify_gap, terminals[1],
                                       terminals[2])
        with_terminal(new_terminal) ==
            LET allowed_time_interval ==
                    get_driving_time_constraints(gen, truck, prev_checkpoint,
                                                 next_checkpoint,
                                                 new_terminal)
            IN  IF allowed_time_interval.kind # "some"
                THEN {allowed_time_interval}
                ELSE {insert_checkpoint(gen, sched, truck, prev_checkpoint,
                                        terminals[1], terminals[2],
                                        new_terminal, new_time) :
                        new_time \in
                            allowed_time_interval.value.start_time ..
                            (allowed_time_interval.value.end_time - 1)}
    IN  IF possible = {} THEN {None}
        ELSE UNION {with_terminal(new_terminal) : new_terminal \in possible}

\* ScheduleGenerator::add_random_checkpoint
add_random_checkpoint(gen, sched) ==
    IF gen.trucks = {} THEN {None}
    ELSE UNION {add_checkpoint_in_gap(gen, sched, truck, time_to_identify_gap) :
                  truck \in gen.trucks,
                  time_to_identify_gap \in
                      gen.planning_period.start_time ..
                      (gen.planning_period.end_time - 1)}

\* ScheduleGenerator::get_random_checkpoint: the <<truck, position>> pairs
\* the draw can land on (empty when there is no checkpoint at all).
get_random_checkpoint(sched) ==
    UNION {{<<truck, k>> : k \in 1..Len(sched.truck_checkpoints[truck])} :
             truck \in DOMAIN sched.truck_checkpoints}

\* Mutant of driving_time_after_remove: the joined leg A->C is not added.
driving_time_after_remove_no_join(gen, truck, driving_time, prev_terminal, terminal, next_terminal) ==
    LET time_a_to_b == get_driving_time(gen, prev_terminal, Some(terminal),
                                        truck)
        time_b_to_c == get_driving_time(gen, Some(terminal), next_terminal,
                                        truck)
        updated == driving_time - (time_a_to_b.value + time_b_to_c.value)
    IN  IF time_a_to_b.kind = "panic" \/ time_b_to_c.kind = "panic"
        THEN Panic
        ELSE IF updated < 0 THEN Panic
        ELSE Some(updated)

\* The cached driving time after replacing A->B->C by A->C (lines 676-692).
\* prev_terminal and next_terminal are Option<Terminal>.
driving_time_after_remove(gen, truck, driving_time, prev_terminal, terminal, next_terminal) ==
    LET time_a_to_c == get_driving_time(gen, prev_terminal, next_terminal,
                                        truck)
        time_a_to_b == get_driving_time(gen, prev_terminal, Some(terminal),
                                        truck)
        time_b_to_c == get_driving_time(gen, Some(terminal), next_terminal,
                                        truck)
        updated == (driving_time + time_a_to_c.value)
                       - (time_a_to_b.value + time_b_to_c.value)
    IN  IF \/ time_a_to_c.kind = "panic" \/ time_a_to_b.kind = "panic"
           \/ time_b_to_c.kind = "panic"
        THEN Panic
        ELSE IF updated < 0 THEN Panic
        ELSE Some(updated)

\* Mutant of remove_checkpoint_at: the neighbours' terminals are not
\* compared and the invariant is not asserted.
remove_checkpoint_at_unchecked(gen, sched, chosen_truck, chosen_index) ==
    LET checkpoint == sched.truck_checkpoints[chosen_truck][chosen_index]
        around == get_prev_and_next_checkpoints(sched, chosen_truck,
                                                checkpoint)
        out == [sched EXCEPT !.truck_checkpoints[chosen_truck] =
                   VecRemove(@, chosen_index)]
        driving_time ==
            driving_time_after_remove(
                gen, chosen_truck, sched.truck_driving_times[chosen_truck],
                IF around[1].kind = "some"
                THEN Some(around[1].value.terminal) ELSE None,
                checkpoint.terminal,
                IF around[2].kind = "some"
                THEN Some(around[2].value.terminal) ELSE None)
    IN  IF checkpoint.pickup_cargo # {} \/ checkpoint.dropoff_cargo # {}
        THEN None
        ELSE IF driving_time.kind = "panic" THEN Panic
        ELSE Some([out EXCEPT !.truck_driving_times[chosen_truck] =
                       driving_time.value])

\* Mutant of remove_checkpoint_at: a checkpoint with a pickup or a dropoff
\* is removed like any other.
remove_checkpoint_at_with_cargo(gen, sched, chosen_truck, chosen_index) ==
    LET checkpoint == sched.truck_checkpoints[chosen_truck][chosen_index]
        around == get_prev_and_next_checkpoints(sched, chosen_truck,
                                                checkpoint)
        terminals == get_gap_terminals(gen, chosen_truck, around[1],
                                       around[2])
        out == [sched EXCEPT !.truck_checkpoints[chosen_truck] =
                   VecRemove(@, chosen_index)]
        driving_time ==
            driving_time_after_remove(
                gen, chosen_truck, sched.truck_driving_times[chosen_truck],
                IF around[1].kind = "some"
                THEN Some(around[1].value.terminal) ELSE None,
                checkpoint.terminal,
                IF around[2].kind = "some"
                THEN Some(around[2].value.terminal) ELSE None)
    IN  IF Some(terminals[1]) = terminals[2] THEN None
        ELSE IF ~assert_truck_checkpoints_invariant(gen, out, chosen_truck)
        THEN Panic
        ELSE IF driving_time.kind = "panic" THEN Panic
        ELSE Some([out EXCEPT !.truck_driving_times[chosen_truck] =
                       driving_time.value])

\* remove_random_checkpoint for one drawn checkpoint (lines 646-694).
remove_checkpoint_at(gen, sched, chosen_truck, chosen_index) ==
    LET checkpoint == sched.truck_checkpoints[chosen_truck][chosen_index]
        around == get_prev_and_next_checkpoints(sched, chosen_truck,
                                                checkpoint)
        prev_checkpoint == around[1]
        next_checkpoint == around[2]
        terminals == get_gap_terminals(gen, chosen_truck, prev_checkpoint,
                                       next_checkpoint)
        out == [sched EXCEPT !.truck_checkpoints[chosen_truck] =
                   VecRemove(@, chosen_index)]
        driving_time ==
            driving_time_after_remove(
                gen, chosen_truck, sched.truck_driving_times[chosen_truck],
                IF prev_checkpoint.kind = "some"
                THEN Some(prev_checkpoint.value.terminal) ELSE None,
                checkpoint.terminal,
                IF next_checkpoint.kind = "some"
                THEN Some(next_checkpoint.value.terminal) ELSE None)
    IN  IF checkpoint.pickup_cargo # {} \/ checkpoint.dropoff_cargo # {}
        THEN None
        ELSE IF Some(terminals[1]) = terminals[2] THEN None
        ELSE IF ~assert_truck_checkpoints_invariant(gen, out, chosen_truck)
        THEN Panic
        ELSE IF driving_time.kind = "panic" THEN Panic
        ELSE Some([out EXCEPT !.truck_driving_times[chosen_truck] =
                       driving_time.value])

\* ScheduleGenerator::remove_random_checkpoint
remove_random_checkpoint(gen, sched) ==
    IF get_random_checkpoint(sched) = {} THEN {None}
    ELSE {remove_checkpoint_at(gen, sched, chosen[1], chosen[2]) :
            chosen \in get_random_checkpoint(sched)}

\* Mutant of remove_delivery_of: the capacity is given back on
\* [start, end] instead of [start, end).
remove_delivery_of_through_dropoff(gen, sched, cargo, truck) ==
    LET checkpoints == sched.truck_checkpoints[truck]
        start_checkpoint_index ==
            SetMin({k \in 1..Len(checkpoints) :
                       cargo \in checkpoints[k].pickup_cargo})
        end_checkpoint_index ==
            SetMin({k \in 1..Len(checkpoints) :
                       cargo \in checkpoints[k].dropoff_cargo})
        booking_info == gen.cargo_booking_info[cargo]
        restored ==
            [k \in 1..Len(checkpoints) |->
                [checkpoints[k] EXCEPT
                    !.pickup_cargo = @ \ {cargo},
                    !.dropoff_cargo = @ \ {cargo},
                    !.available_weight_kg =
                        IF k \in start_checkpoint_index..end_checkpoint_index
                        THEN @ + booking_info.weight_kg ELSE @,
                    !.available_teu =
                        IF k \in start_checkpoint_index..end_checkpoint_index
                        THEN @ + booking_info.teu ELSE @]]
    IN  IF \E k \in 1..Len(restored) :
               \/ restored[k].available_weight_kg
                      > gen.truck_data[truck].max_weight_kg
               \/ restored[k].available_teu > gen.truck_data[truck].max_teu
        THEN Panic
        ELSE Some([sched EXCEPT
                      !.truck_checkpoints[truck] = restored,
                      !.scheduled_cargo_truck = MapRemove(@, cargo)])

\* remove_random_delivery for one drawn (cargo, truck) entry (lines 703-750).
remove_delivery_of(gen, sched, cargo, truck) ==
    LET checkpoints == sched.truck_checkpoints[truck]
        picks == {k \in 1..Len(checkpoints) :
                      cargo \in checkpoints[k].pickup_cargo}
        start_checkpoint_index == SetMin(picks)
        unpicked == [checkpoints EXCEPT ![start_checkpoint_index].pickup_cargo
                         = @ \ {cargo}]
        drops == {k \in 1..Len(unpicked) :
                      cargo \in unpicked[k].dropoff_cargo}
        end_checkpoint_index == SetMin(drops)
        undropped == [unpicked EXCEPT ![end_checkpoint_index].dropoff_cargo
                          = @ \ {cargo}]
        booking_info == gen.cargo_booking_info[cargo]
        truck_data == gen.truck_data[truck]
        between == start_checkpoint_index..(end_checkpoint_index - 1)
        restored ==
            [k \in 1..Len(undropped) |->
                IF k \in between
                THEN [undropped[k] EXCEPT
                         !.available_weight_kg = @ + booking_info.weight_kg,
                         !.available_teu = @ + booking_info.teu]
                ELSE undropped[k]]
    IN  IF picks = {} THEN Panic
        ELSE IF \E k \in 1..Len(unpicked) : cargo \in unpicked[k].pickup_cargo
        THEN Panic
        ELSE IF drops = {} THEN Panic
        ELSE IF \E k \in 1..Len(undropped) :
                    cargo \in undropped[k].dropoff_cargo
        THEN Panic
        ELSE IF start_checkpoint_index > end_checkpoint_index THEN Panic
        ELSE IF cargo \notin DOMAIN gen.cargo_booking_info THEN Panic
        ELSE IF \E k \in between :
                    \/ restored[k].available_weight_kg > truck_data.max_weight_kg
                    \/ restored[k].available_teu > truck_data.max_teu
        THEN Panic
        ELSE Some([sched EXCEPT
                      !.truck_checkpoints[truck] = restored,
                      !.scheduled_cargo_truck = MapRemove(@, cargo)])

\* ScheduleGenerator::remove_random_delivery
remove_random_delivery(gen, sched) ==
    IF DOMAIN sched.scheduled_cargo_truck = {} THEN {None}
    ELSE {remove_delivery_of(gen, sched, cargo,
                             sched.scheduled_cargo_truck[cargo]) :
            cargo \in DOMAIN sched.scheduled_cargo_truck}

\* Mutant of restriction_chains: only the first cargo of the set restricts.
restriction_chains_first_only(times_by_cargo, cargo_set) ==
    LET order == SortedSeq(cargo_set)
    IN  [k \in 1..Min2(1, Len(order)) |-> times_by_cargo[order[k]]]

\* The restriction chains of a cargo set, in BTreeSet order (lines 770-777).
restriction_chains(times_by_cargo, cargo_set) ==
    LET order == SortedSeq(cargo_set)
    IN  [k \in 1..Len(order) |-> times_by_cargo[order[k]]]

\* ScheduleGenerator::find_random_reschedule_time: the set of outcomes
\* Some(time), None, Panic over the draws of interval and time.
find_random_reschedule_time(gen, sched, truck, old_checkpoint_index, new_pickup, new_dropoff) ==
    LET old_checkpoint == sched.truck_checkpoints[truck][old_checkpoint_index]
        pickup_restriction_intervals ==
            intersect_all(restriction_chains(gen.pickup_times, new_pickup))
        dropoff_restriction_intervals ==
            intersect_all(restriction_chains(gen.dropoff_times, new_dropoff))
        around == get_prev_and_next_checkpoints(sched, truck, old_checkpoint)
        driving == get_driving_time_constraints(gen, truck, around[1],
                                                around[2],
                                                old_checkpoint.terminal)
        allowed_intervals ==
            intersect_all(<<pickup_restriction_intervals,
                            dropoff_restriction_intervals,
                            from_interval(driving.value),
                            from_interval(gen.planning_period)>>)
    IN  IF ~(new_pickup \subseteq DOMAIN gen.pickup_times) THEN {Panic}
        ELSE IF ~(new_dropoff \subseteq DOMAIN gen.dropoff_times) THEN {Panic}
        ELSE IF driving.kind # "some" THEN {driving}
        ELSE IF allowed_intervals = <<>> THEN {None}
        ELSE {Some(new_time) :
                new_time \in UNION {allowed_intervals[k].start_time ..
                                    (allowed_intervals[k].end_time - 1) :
                                    k \in 1..Len(allowed_intervals)}}

\* The map from unscheduled cargo to the <<start index, end index>> pairs of
\* checkpoints it can be delivered between (lines 836-864).
available_cargo_checkpoints(gen, sched, checkpoints) ==
    LET pairs == {p \in (1..Len(checkpoints)) \X (1..Len(checkpoints)) :
                      p[1] < p[2]}
        key(p) == <<checkpoints[p[1]].terminal, checkpoints[p[2]].terminal>>
        cargo_of(p) == IF key(p) \in DOMAIN gen.cargo_by_terminals
                       THEN gen.cargo_by_terminals[key(p)] \
                                (DOMAIN sched.scheduled_cargo_truck)
                       ELSE {}
    IN  [cargo \in UNION {cargo_of(p) : p \in pairs} |->
            {p \in pairs : cargo \in cargo_of(p)}]

\* Mutant of load_cargo: only the TEU are checked, the weight is subtracted
\* unchecked.
load_cargo_teu_only(checkpoints, start_checkpoint_index, end_checkpoint_index, booking_info) ==
    LET between == start_checkpoint_index..(end_checkpoint_index - 1)
        teu(k) == checked_sub(checkpoints[k].available_teu, booking_info.teu)
    IN  IF \E k \in between : teu(k).kind = "none"
        THEN None
        ELSE Some([k \in 1..Len(checkpoints) |->
                      IF k \in between
                      THEN [checkpoints[k] EXCEPT
                               !.available_weight_kg =
                                   @ - booking_info.weight_kg,
                               !.available_teu = teu(k).value]
                      ELSE checkpoints[k]])

\* Mutant of load_cargo: the cargo is loaded on [start, end] instead of
\* [start, end).
load_cargo_through_dropoff(checkpoints, start_checkpoint_index, end_checkpoint_index, booking_info) ==
    LET between == start_checkpoint_index..end_checkpoint_index
        weight(k) == checked_sub(checkpoints[k].available_weight_kg,
                                 booking_info.weight_kg)
        teu(k) == checked_sub(checkpoints[k].available_teu, booking_info.teu)
    IN  IF \E k \in between : weight(k).kind = "none" \/ teu(k).kind = "none"
        THEN None
        ELSE Some([k \in 1..Len(checkpoints) |->
                      IF k \in between
                      THEN [checkpoints[k] EXCEPT
                               !.available_weight_kg = weight(k).value,
                               !.available_teu = teu(k).value]
                      ELSE checkpoints[k]])

\* The capacity loop of add_random_delivery (lines 940-950): Some(the
\* checkpoints with the cargo loaded on [start, end)) or None.
load_cargo(checkpoints, start_checkpoint_index, end_checkpoint_index, booking_info) ==
    LET between == start_checkpoint_index..(end_checkpoint_index - 1)
        weight(k) == checked_sub(checkpoints[k].available_weight_kg,
                                 booking_info.weight_kg)
        teu(k) == checked_sub(checkpoints[k].available_teu, booking_info.teu)
    IN  IF \E k \in between : weight(k).kind = "none" \/ teu(k).kind = "none"
        THEN None
        ELSE Some([k \in 1..Len(checkpoints) |->
                      IF k \in between
                      THEN [checkpoints[k] EXCEPT
                               !.available_weight_kg = weight(k).value,
                               !.available_teu = teu(k).value]
                      ELSE checkpoints[k]])

\* Mutant of finish_delivery: the cargo is not entered in
\* scheduled_cargo_truck.
finish_delivery_unrecorded(gen, out, truck, chosen_cargo, start_checkpoint_index, end_checkpoint_index) ==
    LET loaded == load_cargo(out.truck_checkpoints[truck],
                             start_checkpoint_index, end_checkpoint_index,
                             gen.cargo_booking_info[chosen_cargo])
    IN  IF ~times_strictly_ascending(out.truck_checkpoints[truck])
        THEN Panic
        ELSE IF loaded.kind = "none" THEN None
        ELSE Some([out EXCEPT !.truck_checkpoints[truck] = loaded.value])

\* The end of add_random_delivery, after both checkpoints were rescheduled
\* (lines 931-954): the ordering assertion, the capacity loop, and the entry
\* in scheduled_cargo_truck.
finish_delivery(gen, out, truck, chosen_cargo, start_checkpoint_index, end_checkpoint_index) ==
    LET loaded == load_cargo(out.truck_checkpoints[truck],
                             start_checkpoint_index, end_checkpoint_index,
                             gen.cargo_booking_info[chosen_cargo])
    IN  IF ~times_strictly_ascending(out.truck_checkpoints[truck])
        THEN Panic
        ELSE IF chosen_cargo \notin DOMAIN gen.cargo_booking_info THEN Panic
        ELSE IF loaded.kind = "none" THEN None
        ELSE Some([out EXCEPT
                      !.truck_checkpoints[truck] = loaded.value,
                      !.scheduled_cargo_truck =
                          MapInsert(@, chosen_cargo, truck)])

\* Mutant of reschedule_pickup: the cargo is not put into the pickup set.
reschedule_pickup_time_only(out, truck, start_checkpoint_index, chosen_cargo, new_start_checkpoint_time) ==
    [out EXCEPT
        !.truck_checkpoints[truck][start_checkpoint_index] =
            [@ EXCEPT !.time = new_start_checkpoint_time]]

\* The pickup checkpoint gets the cargo and its new time (lines 911-915).
reschedule_pickup(out, truck, start_checkpoint_index, chosen_cargo, new_start_checkpoint_time) ==
    [out EXCEPT
        !.truck_checkpoints[truck][start_checkpoint_index] =
            [@ EXCEPT !.pickup_cargo = @ \cup {chosen_cargo},
                      !.time = new_start_checkpoint_time]]

\* Mutant of reschedule_dropoff: the dropoff set is replaced by the cargo.
reschedule_dropoff_replacing(out, truck, end_checkpoint_index, chosen_cargo, new_end_checkpoint_time) ==
    [out EXCEPT
        !.truck_checkpoints[truck][end_checkpoint_index] =
            [@ EXCEPT !.dropoff_cargo = {chosen_cargo},
                      !.time = new_end_checkpoint_time]]

\* The dropoff checkpoint gets the cargo and its new time (lines 924-928).
reschedule_dropoff(out, truck, end_checkpoint_index, chosen_cargo, new_end_checkpoint_time) ==
    [out EXCEPT
        !.truck_checkpoints[truck][end_checkpoint_index] =
            [@ EXCEPT !.dropoff_cargo = @ \cup {chosen_cargo},
                      !.time = new_end_checkpoint_time]]

\* add_random_delivery once truck, cargo and checkpoint pair are drawn
\* (lines 881-954).
add_delivery_between(gen, sched, truck, chosen_cargo, start_checkpoint_index, end_checkpoint_index) ==
    LET checkpoints == sched.truck_checkpoints[truck]
        start_checkpoint == checkpoints[start_checkpoint_index]
        end_checkpoint == checkpoints[end_checkpoint_index]
        new_start_checkpoint_pickup ==
            start_checkpoint.pickup_cargo \cup {chosen_cargo}
        new_end_checkpoint_dropoff ==
            end_checkpoint.dropoff_cargo \cup {chosen_cargo}
        start_times ==
            find_random_reschedule_time(gen, sched, truck,
                                        start_checkpoint_index,
                                        new_start_checkpoint_pickup,
                                        start_checkpoint.dropoff_cargo)
        with_start(new_start_checkpoint_time) ==
            reschedule_pickup(sched, truck, start_checkpoint_index,
                              chosen_cargo, new_start_checkpoint_time)
        end_times(out) ==
            find_random_reschedule_time(gen, out, truck, end_checkpoint_index,
                                        end_checkpoint.pickup_cargo,
                                        new_end_checkpoint_dropoff)
        with_end(out, new_end_checkpoint_time) ==
            reschedule_dropoff(out, truck, end_checkpoint_index,
                               chosen_cargo, new_end_checkpoint_time)
        after_start(s) ==
            IF s.kind # "some" THEN {s}
            ELSE LET out == with_start(s.value)
                 IN  {IF e.kind # "some" THEN e
                      ELSE finish_delivery(gen, with_end(out, e.value), truck,
                                           chosen_cargo,
                                           start_checkpoint_index,
                                           end_checkpoint_index) :
                        e \in end_times(out)}
    IN  UNION {after_start(s) : s \in start_times}

\* add_random_delivery for one drawn truck (lines 836-954).
add_delivery_on(gen, sched, truck) ==
    LET available == available_cargo_checkpoints(gen, sched,
                                                 sched.truck_checkpoints[truck])
    IN  IF DOMAIN available = {} THEN {None}
        ELSE UNION {UNION {add_delivery_between(gen, sched, truck,
                                                chosen_cargo, pair[1], pair[2]) :
                             pair \in available[chosen_cargo]} :
                      chosen_cargo \in DOMAIN available}

\* ScheduleGenerator::add_random_delivery
add_random_delivery(gen, sched) ==
    IF DOMAIN sched.truck_checkpoints = {} THEN {None}
    ELSE UNION {add_delivery_on(gen, sched, truck) :
                  truck \in DOMAIN sched.truck_checkpoints}

---------------------------------------------------------------------------
(* The problem instances the generator is built from.                      *)

\* The planning period is [0, Horizon).
Horizon == 5

\* The most checkpoints a schedule may hold in the model, over all trucks.
MaxCheckpoints == 4

TerminalIds == {"A", "B", "C"}

AllOpen ==
    <<[id |-> "A", opening_time |-> 0, closing_time |-> Horizon],
      [id |-> "B", opening_time |-> 0, closing_time |-> Horizon],
      [id |-> "C", opening_time |-> 0, closing_time |-> Horizon]>>

Fleet ==
    <<[id |-> "T1", starting_terminal |-> "A", max_weight_kg |-> 2,
       max_teu |-> 2],
      [id |-> "T2", starting_terminal |-> "C", max_weight_kg |-> 1,
       max_teu |-> 1]>>

Booking(cargo, from, to, p1, p2, d1, d2) ==
    [cargo |-> cargo, cargo_weight_kg |-> 1, cargo_teu |-> 1,
     from_terminal |-> from, to_terminal |-> to,
     pickup_open_time |-> p1, pickup_close_time |-> p2,
     dropoff_open_time |-> d1, dropoff_close_time |-> d2]

\* Two cargo on the same leg.
SameLeg ==
    <<Booking("c1", "B", "C", 1, 3, 2, Horizon),
      Booking("c2", "B", "C", 1, 4, 3, Horizon)>>

\* Two cargo over three terminals.
ThreeTerminals ==
    <<Booking("c1", "B", "C", 1, 3, 2, Horizon),
      Booking("c2", "A", "B", 0, 4, 1, Horizon)>>

\* A cargo id that occurs in two bookings.
DuplicateId ==
    <<Booking("c1", "C", "B", 1, 4, 2, Horizon),
      Booking("c1", "B", "C", 1, 4, 2, Horizon)>>

\* A cargo heavier than every truck can carry, next to one that fits.
Oversized ==
    <<[Booking("c1", "B", "C", 1, 3, 2, Horizon) EXCEPT !.cargo_weight_kg = 3],
      Booking("c2", "B", "C", 1, 4, 3, Horizon)>>

BookingLists == {SameLeg, ThreeTerminals, DuplicateId, Oversized}

\* Driving-time matrices: uniform, with a zero entry, breaking the triangle
\* inequality, and asymmetric.
Uniform == [p \in TerminalIds \X TerminalIds |-> 1]

ZeroEntry == [Uniform EXCEPT ![<<"B", "C">>] = 0]

NoTriangle == [Uniform EXCEPT ![<<"A", "C">>] = 3, ![<<"C", "A">>] = 3]

Asymmetric == [Uniform EXCEPT ![<<"A", "B">>] = 2]

DrivingMatrices == {Uniform, ZeroEntry, NoTriangle, Asymmetric}

\* The pairs of booking list and matrix the generator is built from.
Scenarios ==
    {<<SameLeg, Uniform>>, <<SameLeg, ZeroEntry>>,
     <<ThreeTerminals, Uniform>>, <<ThreeTerminals, NoTriangle>>,
     <<ThreeTerminals, Asymmetric>>,
     <<DuplicateId, Uniform>>, <<DuplicateId, ZeroEntry>>,
     <<Oversized, Uniform>>}

\* The rows handed to set_driving_times for the terminals of
\* get_terminal_ids, in that order.
MatrixRows(matrix, terminal_id_order) ==
    [from_id \in {terminal_id_order[k] : k \in 1..Len(terminal_id_order)} |->
        [k \in 1..Len(terminal_id_order) |->
            matrix[<<from_id, terminal_id_order[k]>>]]]

\* The generator after new(...) and set_driving_times(...).
Built(terminal_data, truck_data, booking_data, planning_period, matrix) ==
    LET made == new(terminal_data, truck_data, booking_data, planning_period)
        order == get_terminal_ids(made.value)
    IN  set_driving_times(made.value, order, MatrixRows(matrix, order))

---------------------------------------------------------------------------
(* The state machine: a caller that holds one schedule and replaces it by  *)
(* each neighbour an operator returns.                                     *)

\* No call of get_schedule_neighbour is in progress.
NoCall == [pc |-> "idle"]

\* The stand-alone mapper and chain are as constructed.
NoObjects == counter_mapper = mapper_new /\ interval_chain = chain_new

Init ==
    /\ \E scenario \in Scenarios :
           /\ scenario[1] \in BookingLists
           /\ scenario[2] \in DrivingMatrices
           /\ args = [terminal_data |-> AllOpen, truck_data |-> Fleet,
                      booking_data |-> scenario[1],
                      planning_period |-> <<0, Horizon>>]
           /\ generator = Built(AllOpen, Fleet, scenario[1], <<0, Horizon>>,
                                scenario[2]).value
    /\ schedule = empty_schedule(generator)
    /\ last = [op |-> "empty_schedule", kind |-> "some"]
    /\ nb = NoCall
    /\ NoObjects

\* A panic aborts the process: nothing runs after it.
Running == last.kind # "panic"

RECURSIVE CountCheckpoints(_, _)
CountCheckpoints(truck_checkpoints, trucks) ==
    IF trucks = {} THEN 0
    ELSE LET truck == CHOOSE t \in trucks : TRUE
         IN  Len(truck_checkpoints[truck])
                 + CountCheckpoints(truck_checkpoints, trucks \ {truck})

WithinBounds(r) ==
    r.kind = "some" =>
        CountCheckpoints(r.value.truck_checkpoints,
                         DOMAIN r.value.truck_checkpoints) <= MaxCheckpoints

Returned(op, r) ==
    /\ WithinBounds(r)
    /\ last' = [op |-> op, kind |-> r.kind]
    /\ schedule' = IF r.kind = "some" THEN r.value ELSE schedule
    /\ UNCHANGED <<objects, args, generator, nb>>

AddCheckpoint ==
    /\ Running
    /\ \E r \in add_random_checkpoint(generator, schedule) :
           Returned("add_random_checkpoint", r)

RemoveCheckpoint ==
    /\ Running
    /\ \E r \in remove_random_checkpoint(generator, schedule) :
           Returned("remove_random_checkpoint", r)

AddDelivery ==
    /\ Running
    /\ \E r \in add_random_delivery(generator, schedule) :
           Returned("add_random_delivery", r)

RemoveDelivery ==
    /\ Running
    /\ \E r \in remove_random_delivery(generator, schedule) :
           Returned("remove_random_delivery", r)

Next == AddCheckpoint \/ RemoveCheckpoint \/ AddDelivery \/ RemoveDelivery

Spec == Init /\ [][Next]_vars

---------------------------------------------------------------------------
(* Properties of the reachable schedules.                                  *)

Trucks == DOMAIN schedule.truck_checkpoints

Checkpoints(truck) == schedule.truck_checkpoints[truck]

Positions(truck) == 1..Len(Checkpoints(truck))

\* The driving-time matrix entry (0 on the diagonal).
drive(from, to) ==
    IF from = to THEN 0 ELSE generator.driving_times_cache[<<from, to>>]

StartingTerminal(truck) == generator.truck_data[truck].starting_terminal

LastWas(op, kind) == last.op = op /\ last.kind = kind

HasZeroEntry ==
    \E p \in DOMAIN generator.driving_times_cache :
        p[1] # p[2] /\ generator.driving_times_cache[p] = 0

\* C1: in every reachable schedule the checkpoint times of every truck are
\* strictly increasing along its checkpoint list.
C1_TimesStrictlyIncreasing ==
    \A truck \in Trucks :
        \A k \in Positions(truck) \ {1} :
            Checkpoints(truck)[k - 1].time < Checkpoints(truck)[k].time

\* C1 witness: add-delivery has just moved two checkpoints of a truck with
\* three checkpoints, under a matrix that has a zero entry.
C1_Witness ==
    /\ LastWas("add_random_delivery", "some")
    /\ HasZeroEntry
    /\ \E truck \in Trucks : Len(Checkpoints(truck)) = 3

\* C2: no two consecutive checkpoints of a truck have the same terminal, and
\* the first checkpoint's terminal differs from the truck's starting terminal.
C2_NoRepeatedTerminal ==
    \A truck \in Trucks :
        /\ \A k \in Positions(truck) \ {1} :
               Checkpoints(truck)[k - 1].terminal # Checkpoints(truck)[k].terminal
        /\ (Len(Checkpoints(truck)) > 0 =>
               Checkpoints(truck)[1].terminal # StartingTerminal(truck))

\* C2 witness: remove-checkpoint has just succeeded and left a truck with at
\* least two checkpoints.
C2_Witness ==
    /\ LastWas("remove_random_checkpoint", "some")
    /\ \E truck \in Trucks : Len(Checkpoints(truck)) >= 2

\* C3: every pair of consecutive checkpoints is at least the driving time
\* apart, and the first checkpoint is at least the driving time from the
\* starting terminal after the start of the planning period.
C3_DrivingTimeFeasible ==
    \A truck \in Trucks :
        /\ \A k \in Positions(truck) \ {1} :
               Checkpoints(truck)[k].time - Checkpoints(truck)[k - 1].time >=
                   drive(Checkpoints(truck)[k - 1].terminal,
                         Checkpoints(truck)[k].terminal)
        /\ (Len(Checkpoints(truck)) > 0 =>
               Checkpoints(truck)[1].time
                       - generator.planning_period.start_time >=
                   drive(StartingTerminal(truck),
                         Checkpoints(truck)[1].terminal))

PickupAt(truck, cargo) ==
    {k \in Positions(truck) : cargo \in Checkpoints(truck)[k].pickup_cargo}

DropoffAt(truck, cargo) ==
    {k \in Positions(truck) : cargo \in Checkpoints(truck)[k].dropoff_cargo}

Scheduled == DOMAIN schedule.scheduled_cargo_truck

MentionedCargo ==
    UNION {UNION {Checkpoints(truck)[k].pickup_cargo
                      \cup Checkpoints(truck)[k].dropoff_cargo :
                  k \in Positions(truck)} :
           truck \in Trucks}

AllCargo == (DOMAIN generator.cargo_booking_info) \cup Scheduled \cup MentionedCargo

ScheduledOn(cargo, truck) ==
    cargo \in Scheduled /\ schedule.scheduled_cargo_truck[cargo] = truck

\* C4: scheduled_cargo_truck[c] = t iff exactly one checkpoint of t picks c
\* up and exactly one strictly later checkpoint of t drops it off; a truck
\* that c is not scheduled on (and every truck, for an unscheduled c) has no
\* checkpoint that mentions c.
C4_CargoTruckAgreement ==
    \A cargo \in AllCargo : \A truck \in Trucks :
        /\ ScheduledOn(cargo, truck) <=>
               /\ Cardinality(PickupAt(truck, cargo)) = 1
               /\ Cardinality(DropoffAt(truck, cargo)) = 1
               /\ \A i \in PickupAt(truck, cargo) :
                      \A j \in DropoffAt(truck, cargo) : i < j
        /\ (~ScheduledOn(cargo, truck) =>
               PickupAt(truck, cargo) = {} /\ DropoffAt(truck, cargo) = {})

\* C4 witness: two cargo are scheduled, on two different trucks.
C4_Witness ==
    \E c1 \in Scheduled, c2 \in Scheduled :
        schedule.scheduled_cargo_truck[c1] # schedule.scheduled_cargo_truck[c2]

InChain(time, chain) ==
    \E k \in 1..Len(chain) :
        chain[k].start_time <= time /\ time < chain[k].end_time

InPlanningPeriod(time) ==
    /\ generator.planning_period.start_time <= time
    /\ time < generator.planning_period.end_time

\* C5: for every scheduled cargo, the checkpoint that picks it up is timed
\* inside its effective pickup window and the checkpoint that drops it off
\* inside its effective dropoff window, both inside the planning period.
C5_TimeWindows ==
    \A cargo \in Scheduled : \A truck \in Trucks :
        /\ \A k \in PickupAt(truck, cargo) :
               /\ InChain(Checkpoints(truck)[k].time,
                          generator.pickup_times[cargo])
               /\ InPlanningPeriod(Checkpoints(truck)[k].time)
        /\ \A k \in DropoffAt(truck, cargo) :
               /\ InChain(Checkpoints(truck)[k].time,
                          generator.dropoff_times[cargo])
               /\ InPlanningPeriod(Checkpoints(truck)[k].time)

\* C5 witness: add-delivery has just succeeded on a truck where one
\* checkpoint drops off two cargo.
C5_Witness ==
    /\ LastWas("add_random_delivery", "some")
    /\ \E truck \in Trucks, k \in 1..MaxCheckpoints :
           /\ k \in Positions(truck)
           /\ Cardinality(Checkpoints(truck)[k].dropoff_cargo) >= 2

\* C6: the checkpoint that picks a scheduled cargo up is at booking.from and
\* the checkpoint that drops it off is at booking.to.
C6_BookingTerminals ==
    \A cargo \in Scheduled : \A truck \in Trucks :
        /\ \A k \in PickupAt(truck, cargo) :
               Checkpoints(truck)[k].terminal =
                   generator.cargo_booking_info[cargo].from
        /\ \A k \in DropoffAt(truck, cargo) :
               Checkpoints(truck)[k].terminal =
                   generator.cargo_booking_info[cargo].to

\* C7: every checkpoint of truck t has 0 <= available_teu <= max_teu(t) and
\* 0 <= available_weight_kg <= max_weight_kg(t).
C7_CapacityBounds ==
    \A truck \in Trucks : \A k \in Positions(truck) :
        /\ 0 <= Checkpoints(truck)[k].available_teu
        /\ Checkpoints(truck)[k].available_teu
               <= generator.truck_data[truck].max_teu
        /\ 0 <= Checkpoints(truck)[k].available_weight_kg
        /\ Checkpoints(truck)[k].available_weight_kg
               <= generator.truck_data[truck].max_weight_kg

\* C7 witness: a truck is full (no weight left) after a pickup.
C7_Witness ==
    \E truck \in Trucks, k \in 1..MaxCheckpoints :
        /\ k \in Positions(truck)
        /\ Checkpoints(truck)[k].pickup_cargo # {}
        /\ Checkpoints(truck)[k].available_weight_kg = 0

\* The cargo on board of the truck just after its k-th checkpoint.
InFlight(truck, k) ==
    {cargo \in Scheduled :
        /\ schedule.scheduled_cargo_truck[cargo] = truck
        /\ \E i \in PickupAt(truck, cargo) : i <= k
        /\ \E j \in DropoffAt(truck, cargo) : j > k}

RECURSIVE SumWeight(_)
SumWeight(S) ==
    IF S = {} THEN 0
    ELSE LET c == CHOOSE c \in S : TRUE
         IN  generator.cargo_booking_info[c].weight_kg + SumWeight(S \ {c})

RECURSIVE SumTeu(_)
SumTeu(S) ==
    IF S = {} THEN 0
    ELSE LET c == CHOOSE c \in S : TRUE
         IN  generator.cargo_booking_info[c].teu + SumTeu(S \ {c})

\* C8: at every checkpoint the available weight (TEU) is the truck's maximum
\* minus the summed weight (TEU) of the cargo picked up at or before it and
\* dropped off after it.
C8_CapacityAccounting ==
    \A truck \in Trucks : \A k \in Positions(truck) :
        /\ Checkpoints(truck)[k].available_weight_kg =
               generator.truck_data[truck].max_weight_kg
                   - SumWeight(InFlight(truck, k))
        /\ Checkpoints(truck)[k].available_teu =
               generator.truck_data[truck].max_teu
                   - SumTeu(InFlight(truck, k))

\* C8 witness: add-checkpoint has just succeeded and a checkpoint without
\* cargo lies between a pickup and its dropoff.
C8_Witness ==
    /\ LastWas("add_random_checkpoint", "some")
    /\ \E truck \in Trucks, k \in 1..MaxCheckpoints :
           /\ k \in Positions(truck)
           /\ Checkpoints(truck)[k].pickup_cargo = {}
           /\ Checkpoints(truck)[k].dropoff_cargo = {}
           /\ InFlight(truck, k) # {}

\* The driving time along a truck's checkpoints, from its starting terminal.
RouteTime(truck) ==
    LET cps == Checkpoints(truck)
        F[k \in 0..Len(cps)] ==
            IF k = 0 THEN 0
            ELSE F[k - 1] + drive(IF k = 1 THEN StartingTerminal(truck)
                                  ELSE cps[k - 1].terminal,
                                  cps[k].terminal)
    IN  F[Len(cps)]

\* C9: truck_driving_times[t] is the driving time from the starting terminal
\* to the first checkpoint plus that between all consecutive checkpoints.
C9_DrivingTimeCache ==
    \A truck \in Trucks :
        schedule.truck_driving_times[truck] = RouteTime(truck)

\* C9 witness: remove-checkpoint has just joined two neighbours of a truck
\* that still drives.
C9_Witness ==
    /\ LastWas("remove_random_checkpoint", "some")
    /\ \E truck \in Trucks :
           /\ Len(Checkpoints(truck)) >= 2
           /\ schedule.truck_driving_times[truck] > 0

\* C10: no call of a mutation operator aborts: each returns a new schedule
\* or none.
C10_NoAbort == last.kind # "panic"


---------------------------------------------------------------------------
(* Round trips and frame conditions of the operators.                      *)

\* The successful outcomes of add_random_delivery on the current schedule.
AddedDeliveries ==
    {r.value : r \in {x \in add_random_delivery(generator, schedule) :
                          x.kind = "some"}}

\* The cargo a schedule has scheduled beyond the current one.
NewCargo(sched) == (DOMAIN sched.scheduled_cargo_truck) \ Scheduled

\* remove-delivery of the cargo that add-delivery has just scheduled.
Undelivered(sched) ==
    LET cargo == CHOOSE c \in NewCargo(sched) : TRUE
    IN  remove_delivery_of(generator, sched, cargo,
                           sched.scheduled_cargo_truck[cargo])

\* The checkpoints of a list without their times.
Untimed(checkpoints) ==
    [k \in 1..Len(checkpoints) |-> [checkpoints[k] EXCEPT !.time = 0]]

Timeless(sched) ==
    [sched EXCEPT !.truck_checkpoints =
        [truck \in DOMAIN sched.truck_checkpoints |->
            Untimed(sched.truck_checkpoints[truck])]]

AddedCheckpoints ==
    {r.value : r \in {x \in add_random_checkpoint(generator, schedule) :
                          x.kind = "some"}}

\* The <<truck, position>> of a checkpoint of sched whose removal from its
\* list gives the current list of that truck.
InsertedAt(sched) ==
    {chosen \in get_random_checkpoint(sched) :
        VecRemove(sched.truck_checkpoints[chosen[1]], chosen[2]) =
            Checkpoints(chosen[1])}

\* C13: in every reachable schedule, when add-checkpoint succeeds and
\* remove-checkpoint then succeeds on the inserted checkpoint, the result
\* is the schedule add-checkpoint started from: same checkpoint lists,
\* scheduled_cargo_truck and truck_driving_times.
C13_AddThenRemoveCheckpoint ==
    [](\A sched \in AddedCheckpoints : \A chosen \in InsertedAt(sched) :
           LET back == remove_checkpoint_at(generator, sched, chosen[1],
                                            chosen[2])
           IN  back.kind = "some" => back.value = schedule)

\* C13 witness: a checkpoint can be inserted between two checkpoints of a
\* truck that drives, and be removed again.
C13_Witness ==
    \E sched \in AddedCheckpoints : \E chosen \in InsertedAt(sched) :
        /\ chosen[2] < Len(sched.truck_checkpoints[chosen[1]])
        /\ schedule.truck_driving_times[chosen[1]] > 0
        /\ remove_checkpoint_at(generator, sched, chosen[1],
                                chosen[2]).kind = "some"

\* What a successful remove-delivery of cargo does to the schedule.
RemoveDeliveryEffect(cargo) ==
    LET truck == schedule.scheduled_cargo_truck[cargo]
        before == schedule.truck_checkpoints[truck]
        after == schedule'.truck_checkpoints[truck]
        pickup_index == CHOOSE k \in 1..Len(before) : cargo \in before[k].pickup_cargo
        dropoff_index ==
            CHOOSE k \in 1..Len(before) : cargo \in before[k].dropoff_cargo
        info == generator.cargo_booking_info[cargo]
        on_board(k) == pickup_index <= k /\ k < dropoff_index
    IN  /\ DOMAIN schedule'.scheduled_cargo_truck = Scheduled \ {cargo}
        /\ \A c \in Scheduled \ {cargo} :
               schedule'.scheduled_cargo_truck[c] =
                   schedule.scheduled_cargo_truck[c]
        /\ schedule'.truck_driving_times = schedule.truck_driving_times
        /\ DOMAIN schedule'.truck_checkpoints = Trucks
        /\ \A other \in Trucks \ {truck} :
               schedule'.truck_checkpoints[other] = Checkpoints(other)
        /\ Len(after) = Len(before)
        /\ \A k \in 1..Len(before) :
               /\ after[k].time = before[k].time
               /\ after[k].terminal = before[k].terminal
               /\ after[k].pickup_cargo =
                      IF k = pickup_index THEN before[k].pickup_cargo \ {cargo}
                      ELSE before[k].pickup_cargo
               /\ after[k].dropoff_cargo =
                      IF k = dropoff_index THEN before[k].dropoff_cargo \ {cargo}
                      ELSE before[k].dropoff_cargo
               /\ after[k].available_weight_kg =
                      before[k].available_weight_kg
                          + (IF on_board(k) THEN info.weight_kg ELSE 0)
               /\ after[k].available_teu =
                      before[k].available_teu
                          + (IF on_board(k) THEN info.teu ELSE 0)

\* C14: a successful remove-delivery takes one cargo out of the pickup set
\* of its pickup checkpoint, out of the dropoff set of its dropoff
\* checkpoint and out of scheduled_cargo_truck, gives its weight and TEU
\* back to the checkpoints in [pickup, dropoff), and changes nothing else.
C14_RemoveDeliveryFrame ==
    [][(last'.op = "remove_random_delivery" /\ last'.kind = "some") =>
           \E cargo \in Scheduled : RemoveDeliveryEffect(cargo)]_vars

\* C14 witness: remove-delivery has just succeeded on a truck that still
\* carries another cargo.
C14_Witness ==
    /\ LastWas("remove_random_delivery", "some")
    /\ Scheduled # {}
    /\ \E truck \in Trucks, k \in 1..MaxCheckpoints :
           /\ k \in Positions(truck)
           /\ Checkpoints(truck)[k].available_weight_kg
                  < generator.truck_data[truck].max_weight_kg

\* A cargo that no truck can carry.
TooBig(cargo) ==
    LET info == generator.cargo_booking_info[cargo]
    IN  \/ \A truck \in generator.trucks :
               info.weight_kg > generator.truck_data[truck].max_weight_kg
        \/ \A truck \in generator.trucks :
               info.teu > generator.truck_data[truck].max_teu

\* C15: a cargo whose weight exceeds the max_weight_kg of every truck, or
\* whose TEU exceed every max_teu, is never in scheduled_cargo_truck.
C15_OversizedNeverScheduled ==
    \A cargo \in DOMAIN generator.cargo_booking_info :
        TooBig(cargo) => cargo \notin Scheduled

\* C15 witness: add-delivery has just returned none on a schedule where the
\* only unscheduled cargo is too big and a truck has a checkpoint at its
\* from-terminal inside its pickup window before one at its to-terminal
\* inside its dropoff window.
C15_Witness ==
    /\ LastWas("add_random_delivery", "none")
    /\ \E cargo \in DOMAIN generator.cargo_booking_info :
           /\ TooBig(cargo)
           /\ (DOMAIN generator.cargo_booking_info) \ Scheduled = {cargo}
           /\ \E truck \in Trucks :
                  \E i \in Positions(truck), j \in Positions(truck) :
                      /\ i < j
                      /\ Checkpoints(truck)[i].terminal =
                             generator.cargo_booking_info[cargo].from
                      /\ Checkpoints(truck)[j].terminal =
                             generator.cargo_booking_info[cargo].to
                      /\ InChain(Checkpoints(truck)[i].time,
                                 generator.pickup_times[cargo])
                      /\ InChain(Checkpoints(truck)[j].time,
                                 generator.dropoff_times[cargo])


---------------------------------------------------------------------------
(* Construction: ScheduleGenerator::new and set_driving_times applied to   *)
(* arguments drawn from small sets.                                        *)

\* The pairs (open, close) with 0 <= open <= close <= Horizon; a pair with
\* open = close is not an interval.
Windows == {w \in (0..Horizon) \X (0..Horizon) : w[1] <= w[2]}

OpeningHours == {<<0, Horizon>>, <<0, 2>>, <<2, Horizon>>, <<3, 3>>}

DropoffWindows == {<<0, Horizon>>, <<1, 2>>, <<Horizon - 1, Horizon>>}

PlanningPeriods == {<<0, Horizon>>, <<1, Horizon - 1>>}

\* Terminals A (varying opening hours), B and D; one truck that starts at A
\* or at D; a booking A->B with varying windows followed by a booking B->D
\* with wide windows, under the same or another cargo id.
ConstructArgs ==
    {[terminal_data |->
          <<[id |-> "A", opening_time |-> open[1], closing_time |-> open[2]],
            [id |-> "B", opening_time |-> 0, closing_time |-> Horizon],
            [id |-> "D", opening_time |-> 0, closing_time |-> Horizon]>>,
      truck_data |->
          <<[id |-> "T1", starting_terminal |-> start, max_weight_kg |-> 2,
             max_teu |-> 2]>>,
      booking_data |->
          <<Booking("c1", "A", "B", pickup[1], pickup[2], dropoff[1],
                    dropoff[2]),
            Booking(second, "B", "D", 0, Horizon, 0, Horizon)>>,
      planning_period |-> period] :
        open \in OpeningHours, start \in {"A", "D"}, pickup \in Windows,
        dropoff \in DropoffWindows, second \in {"c1", "c2"},
        period \in PlanningPeriods}

\* Windows that interval_or_error accepts or rejects: wide, of length zero
\* and with the end before the start.
FaultyWindows == {<<0, Horizon>>, <<2, 2>>, <<3, 1>>}

\* Arguments that are wrong in some way: intervals of non-positive length
\* anywhere, a terminal "Z" that terminal_data does not have, a first
\* booking that would be dropped (pickup before A opens).
FaultyArgs ==
    {[terminal_data |->
          <<[id |-> "A", opening_time |-> open[1], closing_time |-> open[2]],
            [id |-> "B", opening_time |-> 0, closing_time |-> Horizon]>>,
      truck_data |->
          <<[id |-> "T1", starting_terminal |-> start, max_weight_kg |-> 2,
             max_teu |-> 2]>>,
      booking_data |->
          <<Booking("c1", from, to, pickup[1], pickup[2], dropoff[1],
                    dropoff[2]),
            Booking("c2", "B", "A", 0, Horizon, second[1], second[2])>>,
      planning_period |-> period] :
        open \in FaultyWindows \cup {<<2, Horizon>>}, start \in {"A", "Z"},
        from \in {"A", "Z"}, to \in {"B", "Z"},
        pickup \in FaultyWindows \cup {<<0, 1>>}, dropoff \in FaultyWindows,
        second \in {<<0, Horizon>>, <<2, 2>>}, period \in FaultyWindows}

Unbuilt == [kind |-> "unbuilt"]

ConstructInit ==
    /\ args \in ConstructArgs \cup FaultyArgs
    /\ generator = Unbuilt
    /\ schedule = Unbuilt
    /\ last = [op |-> "arguments", kind |-> "some"]
    /\ nb = NoCall
    /\ NoObjects

\* ScheduleGenerator::new followed by empty_schedule.
Construct ==
    /\ generator = Unbuilt
    /\ last.op = "arguments"
    /\ LET made == new(args.terminal_data, args.truck_data, args.booking_data,
                       args.planning_period)
       IN  /\ last' = [op |-> "new", kind |-> made.kind]
           /\ generator' = IF made.kind = "ok" THEN made.value ELSE generator
           /\ schedule' = IF made.kind = "ok" THEN empty_schedule(made.value)
                          ELSE schedule
    /\ UNCHANGED <<objects, args, nb>>

\* set_driving_times with a uniform matrix over get_terminal_ids.
SetDrivingTimes ==
    /\ generator # Unbuilt
    /\ last.op = "new"
    /\ LET order == get_terminal_ids(generator)
           rows == [from_id \in {order[k] : k \in 1..Len(order)} |->
                       [k \in 1..Len(order) |-> 1]]
           set == set_driving_times(generator, order, rows)
       IN  /\ last' = [op |-> "set_driving_times", kind |-> set.kind]
           /\ generator' = IF set.kind = "ok" THEN set.value ELSE generator
    /\ UNCHANGED <<objects, args, schedule, nb>>

ConstructNext == Construct \/ SetDrivingTimes

SpecConstruct == ConstructInit /\ [][ConstructNext]_vars

\* The times of a window [open, close).
TimesOf(window) == {t \in 0..Horizon : window[1] <= t /\ t < window[2]}

\* The times of a chain of intervals.
ChainTimes(chain) ==
    UNION {chain[k].start_time..(chain[k].end_time - 1) : k \in 1..Len(chain)}

OpenTimes(terminal_id) ==
    UNION {TimesOf(<<args.terminal_data[k].opening_time,
                     args.terminal_data[k].closing_time>>) :
           k \in {i \in 1..Len(args.terminal_data) :
                      args.terminal_data[i].id = terminal_id}}

\* The effective windows of a booking: its own window, within the opening
\* hours of the terminal, within the planning period.
EffectivePickup(booking) ==
    TimesOf(<<booking.pickup_open_time, booking.pickup_close_time>>)
        \cap OpenTimes(booking.from_terminal)
        \cap TimesOf(args.planning_period)

EffectiveDropoff(booking) ==
    TimesOf(<<booking.dropoff_open_time, booking.dropoff_close_time>>)
        \cap OpenTimes(booking.to_terminal)
        \cap TimesOf(args.planning_period)

Kept(booking) ==
    EffectivePickup(booking) # {} /\ EffectiveDropoff(booking) # {}

Bookings == {args.booking_data[k] : k \in 1..Len(args.booking_data)}

Constructed == generator # Unbuilt

\* The internal index of an external id (an index no map uses when the id
\* was never interned).
CargoIndex(id) ==
    IF id \in DOMAIN generator.cargo_mapper.reverse_map
    THEN generator.cargo_mapper.reverse_map[id] ELSE -1

TerminalIndex(id) ==
    IF id \in DOMAIN generator.terminal_mapper.reverse_map
    THEN generator.terminal_mapper.reverse_map[id] ELSE -1

\* The booking is in the (from, to) index.
Indexed(booking) ==
    LET key == <<TerminalIndex(booking.from_terminal),
                 TerminalIndex(booking.to_terminal)>>
    IN  /\ key \in DOMAIN generator.cargo_by_terminals
        /\ CargoIndex(booking.cargo) \in generator.cargo_by_terminals[key]

\* C19: after construction every booking whose effective windows are both
\* non-empty is kept with exactly these windows (its cargo in
\* cargo_booking_info, pickup_times, dropoff_times and the (from, to)
\* index), and the cargo of every other booking is in none of them.
C19_EffectiveWindows ==
    Constructed =>
        \A booking \in Bookings :
            LET cargo == CargoIndex(booking.cargo)
            IN  IF Kept(booking)
                THEN /\ cargo \in DOMAIN generator.cargo_booking_info
                     /\ cargo \in DOMAIN generator.pickup_times
                     /\ cargo \in DOMAIN generator.dropoff_times
                     /\ Indexed(booking)
                     /\ ChainTimes(generator.pickup_times[cargo]) =
                            EffectivePickup(booking)
                     /\ ChainTimes(generator.dropoff_times[cargo]) =
                            EffectiveDropoff(booking)
                ELSE /\ cargo \notin DOMAIN generator.cargo_booking_info
                     /\ cargo \notin DOMAIN generator.pickup_times
                     /\ cargo \notin DOMAIN generator.dropoff_times
                     /\ ~Indexed(booking)

ActiveTerminals == {get_terminal_ids(generator)[k] :
                        k \in 1..Len(get_terminal_ids(generator))}

KeptTerminals ==
    UNION {{booking.from_terminal, booking.to_terminal} :
           booking \in {b \in Bookings : Kept(b)}}

StartingTerminals ==
    {args.truck_data[k].starting_terminal : k \in 1..Len(args.truck_data)}

\* C20 as claimed: every terminal of get_terminal_ids is the from- or the
\* to-terminal of a kept booking.
C20_ActiveTerminals ==
    Constructed => ActiveTerminals \subseteq KeptTerminals

\* C20 as amended: every terminal of get_terminal_ids is the from- or the
\* to-terminal of a kept booking or the starting terminal of a truck.
C20_ActiveOrStartingTerminals ==
    Constructed =>
        ActiveTerminals \subseteq (KeptTerminals \cup StartingTerminals)

\* C20 witness: the generator was constructed, one booking was dropped and
\* its from-terminal is in no kept booking and not in get_terminal_ids.
C20_Witness ==
    /\ Constructed
    /\ \E booking \in Bookings :
           /\ ~Kept(booking)
           /\ booking.from_terminal \notin KeptTerminals
           /\ booking.from_terminal \notin ActiveTerminals

---------------------------------------------------------------------------
(* get_schedule_neighbour, step by step.  The caller's schedule sits       *)
(* behind the `&Schedule` argument; an operator works on its own `out`,    *)
(* which reaches the caller only when the operator returns Some(out).      *)

\* Mutant of write_out: `out` is the caller's schedule itself, not a clone.
write_out_aliased(mem, value) == [schedule |-> value, out |-> Some(value)]

\* A write through `out` (`let mut out = schedule.clone()` and the
\* assignments to it): the caller's schedule is another object.
write_out(mem, value) == [mem EXCEPT !.out = Some(value)]

\* `out` goes out of scope when the operator returns None.
drop_out(mem) == [mem EXCEPT !.out = None]

\* Mutant of try_action: a successful operator is applied a second time.
try_action_twice(gen, sched, action_index) ==
    LET once(s) == CASE action_index = 0 -> remove_random_checkpoint(gen, s)
                     [] action_index = 1 -> add_random_checkpoint(gen, s)
                     [] action_index = 2 -> remove_random_delivery(gen, s)
                     [] action_index = 3 -> add_random_delivery(gen, s)
    IN  UNION {IF r.kind = "some" THEN once(r.value) ELSE {r} :
                 r \in once(sched)}

\* Mutant of try_action: indices 0 and 1 stand for each other's operator.
try_action_swapped(gen, sched, action_index) ==
    CASE action_index = 0 -> add_random_checkpoint(gen, sched)
      [] action_index = 1 -> remove_random_checkpoint(gen, sched)
      [] action_index = 2 -> remove_random_delivery(gen, sched)
      [] action_index = 3 -> add_random_delivery(gen, sched)

\* The match on action_index (lines 1178-1184).
try_action(gen, sched, action_index) ==
    CASE action_index = 0 -> remove_random_checkpoint(gen, sched)
      [] action_index = 1 -> add_random_checkpoint(gen, sched)
      [] action_index = 2 -> remove_random_delivery(gen, sched)
      [] action_index = 3 -> add_random_delivery(gen, sched)

\* The draws of add_random_delivery that reach the rescheduling: truck,
\* cargo and checkpoint pair (lines 825-880).
delivery_draws(gen, sched) ==
    UNION {LET available ==
                   available_cargo_checkpoints(gen, sched,
                                               sched.truck_checkpoints[truck])
           IN  {[truck |-> truck, chosen_cargo |-> chosen_cargo,
                 start_checkpoint_index |-> pair[1],
                 end_checkpoint_index |-> pair[2]] :
                  <<chosen_cargo, pair>> \in
                      UNION {{cargo} \X available[cargo] :
                               cargo \in DOMAIN available}} :
             truck \in DOMAIN sched.truck_checkpoints}

\* The trucks whose draw ends add_random_delivery at once: no cargo can be
\* delivered between two of their checkpoints (line 866).
delivery_unavailable(gen, sched) ==
    {truck \in DOMAIN sched.truck_checkpoints :
        DOMAIN available_cargo_checkpoints(gen, sched,
                                           sched.truck_checkpoints[truck]) = {}}

\* The new time of the pickup checkpoint (lines 893-910).
pickup_times(gen, sched, out, draw) ==
    LET start_checkpoint ==
            sched.truck_checkpoints[draw.truck][draw.start_checkpoint_index]
    IN  find_random_reschedule_time(gen, out, draw.truck,
                                    draw.start_checkpoint_index,
                                    start_checkpoint.pickup_cargo
                                        \cup {draw.chosen_cargo},
                                    start_checkpoint.dropoff_cargo)

\* The new time of the dropoff checkpoint (lines 896-923).
dropoff_times(gen, sched, out, draw) ==
    LET end_checkpoint ==
            sched.truck_checkpoints[draw.truck][draw.end_checkpoint_index]
    IN  find_random_reschedule_time(gen, out, draw.truck,
                                    draw.end_checkpoint_index,
                                    end_checkpoint.pickup_cargo,
                                    end_checkpoint.dropoff_cargo
                                        \cup {draw.chosen_cargo})

\* Scenario A: terminals A and B open [0, 1000), truck T at A, booking c1
\* from A to B, driving time 100, planning period [0, 1000).
ScenarioA ==
    [terminal_data |->
         <<[id |-> "A", opening_time |-> 0, closing_time |-> 1000],
           [id |-> "B", opening_time |-> 0, closing_time |-> 1000]>>,
     truck_data |->
         <<[id |-> "T", starting_terminal |-> "A", max_weight_kg |-> 100,
            max_teu |-> 10]>>,
     booking_data |->
         <<[cargo |-> "c1", cargo_weight_kg |-> 10, cargo_teu |-> 1,
            from_terminal |-> "A", to_terminal |-> "B",
            pickup_open_time |-> 100, pickup_close_time |-> 300,
            dropoff_open_time |-> 500, dropoff_close_time |-> 900]>>,
     planning_period |-> <<0, 1000>>]

ScenarioADriving ==
    [p \in {"A", "B"} \X {"A", "B"} |-> IF p[1] = p[2] THEN 0 ELSE 100]

\* One truck of capacity 1 at A and two cargo from B to C; the dropoff
\* window of c1 is one time unit wide.
Tight ==
    [terminal_data |-> AllOpen,
     truck_data |->
         <<[id |-> "T1", starting_terminal |-> "A", max_weight_kg |-> 1,
            max_teu |-> 1]>>,
     booking_data |->
         <<Booking("c1", "B", "C", 1, 3, 2, 3),
           Booking("c2", "B", "C", 1, 4, 3, Horizon)>>,
     planning_period |-> <<0, Horizon>>]

\* One truck at C, cargo over three terminals, used with a matrix in which
\* the drive from A to B takes longer than the others.
Detour ==
    [terminal_data |-> AllOpen,
     truck_data |->
         <<[id |-> "T2", starting_terminal |-> "C", max_weight_kg |-> 1,
            max_teu |-> 1]>>,
     booking_data |-> ThreeTerminals,
     planning_period |-> <<0, Horizon>>]

\* One truck at A, which opens two time units after B and after the start
\* of the planning period, and one cargo from B to A.
LateStart ==
    [terminal_data |->
         <<[id |-> "A", opening_time |-> 2, closing_time |-> Horizon],
           [id |-> "B", opening_time |-> 0, closing_time |-> Horizon]>>,
     truck_data |->
         <<[id |-> "T1", starting_terminal |-> "A", max_weight_kg |-> 1,
            max_teu |-> 1]>>,
     booking_data |-> <<Booking("c1", "B", "A", 0, Horizon, 0, Horizon)>>,
     planning_period |-> <<0, Horizon>>]

NeighbourInstances ==
    {<<ScenarioA, ScenarioADriving>>, <<Tight, Uniform>>,
     <<Detour, Asymmetric>>, <<LateStart, Uniform>>}

\* The values of num_tries_per_action the caller passes.
NumTries == {0, 1, 2}

NeighbourInit ==
    /\ \E instance \in NeighbourInstances :
           /\ args = instance[1]
           /\ generator = Built(instance[1].terminal_data,
                                instance[1].truck_data,
                                instance[1].booking_data,
                                instance[1].planning_period,
                                instance[2]).value
    /\ schedule = empty_schedule(generator)
    /\ last = [op |-> "empty_schedule", kind |-> "some"]
    /\ nb = NoCall
    /\ NoObjects

\* The caller's schedule and the operator's `out`.
Memory == [schedule |-> schedule, out |-> nb.out]

\* get_schedule_neighbour(schedule, num_tries_per_action) is called.
Call(num_tries_per_action) ==
    /\ nb.pc = "idle"
    /\ nb' = [pc |-> "select",
              num_tries_per_action |-> num_tries_per_action,
              action_index |-> 0, tries |-> 0, reselected |-> FALSE,
              original |-> schedule, out |-> None, draw |-> None,
              dropped |-> None]
    /\ UNCHANGED <<objects, args, generator, schedule, last>>

\* let action_index = self.rng.random_range(0..4)
SelectAction(action_index) ==
    /\ nb.pc = "select"
    /\ nb' = [nb EXCEPT !.pc = "try", !.action_index = action_index,
                        !.tries = 0, !.dropped = None]
    /\ UNCHANGED <<objects, args, generator, schedule, last>>

\* Mutant of Exhausted: after the last try the input schedule is returned.
ExhaustedReturnsInput ==
    /\ nb.pc = "try"
    /\ nb.tries = nb.num_tries_per_action
    /\ nb' = [nb EXCEPT !.pc = "returned", !.out = Some(schedule)]
    /\ UNCHANGED <<objects, args, generator, schedule, last>>

\* The for loop ran num_tries_per_action times: back to the head of `loop`.
Exhausted ==
    /\ nb.pc = "try"
    /\ nb.tries = nb.num_tries_per_action
    /\ nb' = [nb EXCEPT !.pc = "select", !.reselected = TRUE,
                        !.dropped = None]
    /\ UNCHANGED <<objects, args, generator, schedule, last>>

\* The end of a try that did not return a schedule: None goes to the next
\* iteration, a panic aborts.  The result is the memory and the position
\* of the call afterwards.
Failed(call, kind, mem, dropped) ==
    [schedule |-> mem.schedule,
     nb |-> [call EXCEPT !.pc = IF kind = "panic" THEN "aborted" ELSE "try",
                         !.tries = @ + 1, !.out = drop_out(mem).out,
                         !.draw = None, !.dropped = dropped]]

\* The end of a try that returns Some(out).
Succeeded(call, mem) ==
    [schedule |-> mem.schedule,
     nb |-> [call EXCEPT !.pc = "returned", !.out = mem.out, !.draw = None,
                         !.dropped = None]]

\* The step to the memory and position `next`.
Becomes(next) ==
    /\ schedule' = next.schedule
    /\ nb' = next.nb
    /\ UNCHANGED <<objects, args, generator, last>>

\* One iteration with remove_random_checkpoint, add_random_checkpoint or
\* remove_random_delivery that returns a schedule.
TrySucceeds ==
    /\ nb.pc = "try"
    /\ nb.tries < nb.num_tries_per_action
    /\ nb.action_index \in 0..2
    /\ \E r \in try_action(generator, schedule, nb.action_index) :
           /\ r.kind = "some"
           /\ WithinBounds(r)
           /\ Becomes(Succeeded(nb, write_out(Memory, r.value)))

\* One such iteration that returns None; a schedule beyond MaxCheckpoints
\* is discarded like a None.
TryFails ==
    /\ nb.pc = "try"
    /\ nb.tries < nb.num_tries_per_action
    /\ nb.action_index \in 0..2
    /\ \E r \in try_action(generator, schedule, nb.action_index) :
           /\ r.kind # "panic"
           /\ ~(r.kind = "some" /\ WithinBounds(r))
           /\ Becomes(Failed(nb, "none", Memory, None))

\* One such iteration in which an assertion or an unwrap fails: the
\* process aborts inside the call.
TryAborts ==
    /\ nb.pc = "try"
    /\ nb.tries < nb.num_tries_per_action
    /\ nb.action_index \in 0..2
    /\ \E r \in try_action(generator, schedule, nb.action_index) :
           /\ r.kind = "panic"
           /\ Becomes(Failed(nb, r.kind, Memory, None))

\* add_random_delivery finds no truck, or draws a truck that has nothing to
\* deliver.
DeliveryUnavailable ==
    /\ nb.pc = "try"
    /\ nb.tries < nb.num_tries_per_action
    /\ nb.action_index = 3
    /\ (DOMAIN schedule.truck_checkpoints = {}
            \/ delivery_unavailable(generator, schedule) # {})
    /\ Becomes(Failed(nb, "none", Memory, None))

\* The outcomes of add_random_delivery up to the rescheduled pickup
\* checkpoint (lines 825-915): `out` is cloned; None or Panic from the
\* pickup time ends the try, else the pickup checkpoint is rescheduled in
\* `out`.
delivery_pickup(gen, call, mem) ==
    UNION {LET cloned == write_out(mem, mem.schedule)
           IN  {IF s.kind # "some" THEN Failed(call, s.kind, cloned, cloned.out)
                ELSE LET moved ==
                             write_out(cloned,
                                 reschedule_pickup(cloned.out.value,
                                     draw.truck, draw.start_checkpoint_index,
                                     draw.chosen_cargo, s.value))
                     IN  [schedule |-> moved.schedule,
                          nb |-> [call EXCEPT !.pc = "delivery",
                                              !.out = moved.out,
                                              !.draw = Some(draw),
                                              !.dropped = None]] :
                  s \in pickup_times(gen, mem.schedule, cloned.out.value,
                                     draw)} :
             draw \in delivery_draws(gen, mem.schedule)}

\* add_random_delivery up to the rescheduled pickup checkpoint.
DeliveryPickup ==
    /\ nb.pc = "try"
    /\ nb.tries < nb.num_tries_per_action
    /\ nb.action_index = 3
    /\ \E next \in delivery_pickup(generator, nb, Memory) : Becomes(next)

\* The outcomes of the rest of add_random_delivery (lines 917-954): None or
\* Panic from the dropoff time, else the dropoff checkpoint rescheduled in
\* `out` and what the capacity loop makes of it.
delivery_rest(gen, sched, mem, draw) ==
    {IF e.kind # "some" THEN [result |-> e, mem |-> mem]
     ELSE LET moved == write_out(mem,
                           reschedule_dropoff(mem.out.value, draw.truck,
                                              draw.end_checkpoint_index,
                                              draw.chosen_cargo, e.value))
              finished == finish_delivery(gen, moved.out.value, draw.truck,
                                          draw.chosen_cargo,
                                          draw.start_checkpoint_index,
                                          draw.end_checkpoint_index)
          IN  IF finished.kind # "some"
              THEN [result |-> finished, mem |-> moved]
              ELSE [result |-> finished,
                    mem |-> write_out(moved, finished.value)] :
       e \in dropoff_times(gen, sched, mem.out.value, draw)}

\* add_random_delivery from the dropoff checkpoint on, returning Some(out).
DeliveryDropoff ==
    /\ nb.pc = "delivery"
    /\ \E next \in {Succeeded(nb, rest.mem) :
                       rest \in {x \in delivery_rest(generator, schedule,
                                                     Memory, nb.draw.value) :
                                    x.result.kind = "some"}} :
           Becomes(next)

\* add_random_delivery from the dropoff checkpoint on, failing on the new
\* time or on capacity: the half-built `out` is dropped.
DeliveryFails ==
    /\ nb.pc = "delivery"
    /\ \E next \in {Failed(nb, rest.result.kind, rest.mem, rest.mem.out) :
                       rest \in {x \in delivery_rest(generator, schedule,
                                                     Memory, nb.draw.value) :
                                    x.result.kind # "some"}} :
           Becomes(next)

\* return new_schedule: the caller goes on with the neighbour.
Return ==
    /\ nb.pc = "returned"
    /\ schedule' = nb.out.value
    /\ nb' = NoCall
    /\ UNCHANGED <<objects, args, generator, last>>

NeighbourNext ==
    \/ \E num_tries_per_action \in NumTries : Call(num_tries_per_action)
    \/ \E action_index \in 0..3 : SelectAction(action_index)
    \/ Exhausted
    \/ TrySucceeds
    \/ TryFails
    \/ TryAborts
    \/ DeliveryUnavailable
    \/ DeliveryPickup
    \/ DeliveryDropoff
    \/ DeliveryFails
    \/ Return

SpecNeighbour == NeighbourInit /\ [][NeighbourNext]_vars

\* The call is inside add_random_delivery.
InAddRandomDelivery ==
    \/ nb.pc = "delivery"
    \/ /\ nb.pc = "try"
       /\ nb.action_index = 3
       /\ nb.tries < nb.num_tries_per_action

\* The random draws are fair: an action index, and a successful outcome of
\* an operator, that is possible again and again is drawn at some point.
\* The process keeps running: an operator that was called returns, and the
\* loop goes on after a failed try.
SpecNeighbourFair ==
    /\ NeighbourInit
    /\ [][NeighbourNext]_vars
    /\ \A action_index \in 0..3 : SF_vars(SelectAction(action_index))
    /\ SF_vars(TrySucceeds)
    /\ WF_vars(TryFails)
    /\ WF_vars(Exhausted)
    /\ []<>~InAddRandomDelivery

---------------------------------------------------------------------------
(* Properties of get_schedule_neighbour.                                   *)

InScenarioA == args = ScenarioA

\* C16 as claimed: in Scenario A add-checkpoint can succeed on the empty
\* schedule, by inserting a checkpoint at B, the only eligible terminal
\* (after which add-delivery can schedule c1 on T).
C16_ScenarioAInsertsB ==
    (InScenarioA /\ schedule = empty_schedule(generator)) =>
        /\ \E r \in add_random_checkpoint(generator, schedule) :
               r.kind = "some"
        /\ \A r \in add_random_checkpoint(generator, schedule) :
               r.kind = "some" =>
                   \E truck \in DOMAIN r.value.truck_checkpoints :
                       /\ Len(r.value.truck_checkpoints[truck]) = 1
                       /\ r.value.truck_checkpoints[truck][1].terminal
                              = TerminalIndex("B")

\* The schedule the call was made with, and the one it returns.
Input == nb.original

Output == nb.out.value

\* R is S with one cargo-less checkpoint inserted into one route; the
\* cached driving times may differ.
OneCheckpointInserted(S, R) ==
    \E chosen \in get_random_checkpoint(R) :
        /\ R.truck_checkpoints[chosen[1]][chosen[2]].pickup_cargo = {}
        /\ R.truck_checkpoints[chosen[1]][chosen[2]].dropoff_cargo = {}
        /\ S = [R EXCEPT
                   !.truck_checkpoints[chosen[1]] = VecRemove(@, chosen[2]),
                   !.truck_driving_times = S.truck_driving_times]

\* R is S with the cargo picked up at checkpoint i and dropped off at
\* checkpoint j of one route: the two checkpoints may have moved in time
\* and the checkpoints from i up to j have given up capacity; routes,
\* terminals, the other cargo and the driving times are the same.
OneDeliveryAdded(S, R) ==
    \E cargo \in (DOMAIN R.scheduled_cargo_truck)
                    \ (DOMAIN S.scheduled_cargo_truck) :
        LET truck == R.scheduled_cargo_truck[cargo]
            before == S.truck_checkpoints[truck]
            after == R.truck_checkpoints[truck]
        IN  /\ S.scheduled_cargo_truck = MapRemove(R.scheduled_cargo_truck,
                                                   cargo)
            /\ R.truck_driving_times = S.truck_driving_times
            /\ \A other \in (DOMAIN S.truck_checkpoints) \ {truck} :
                   R.truck_checkpoints[other] = S.truck_checkpoints[other]
            /\ Len(after) = Len(before)
            /\ \E i \in 1..Len(after), j \in 1..Len(after) :
                   /\ i < j
                   /\ \A k \in 1..Len(after) :
                          /\ after[k].terminal = before[k].terminal
                          /\ cargo \notin before[k].pickup_cargo
                          /\ cargo \notin before[k].dropoff_cargo
                          /\ after[k].pickup_cargo = before[k].pickup_cargo
                                 \cup (IF k = i THEN {cargo} ELSE {})
                          /\ after[k].dropoff_cargo = before[k].dropoff_cargo
                                 \cup (IF k = j THEN {cargo} ELSE {})
                          /\ (k \notin {i, j} =>
                                 after[k].time = before[k].time)
                          /\ (k \notin i..(j - 1) =>
                                 /\ after[k].available_teu
                                        = before[k].available_teu
                                 /\ after[k].available_weight_kg
                                        = before[k].available_weight_kg)

\* The kinds of single mutation that lead from S to R.
Mutations(S, R) ==
    {kind \in {"checkpoint inserted", "checkpoint removed",
               "delivery added", "delivery removed"} :
        CASE kind = "checkpoint inserted" -> OneCheckpointInserted(S, R)
          [] kind = "checkpoint removed" -> OneCheckpointInserted(R, S)
          [] kind = "delivery added" -> OneDeliveryAdded(S, R)
          [] kind = "delivery removed" -> OneDeliveryAdded(R, S)}

\* C18: whenever get_schedule_neighbour returns, the returned schedule
\* differs from the input by exactly one inserted checkpoint, one removed
\* checkpoint, one added delivery or one removed delivery: it is never the
\* input itself and never two mutations away.
C18_OneMutation ==
    nb.pc = "returned" =>
        /\ Output # Input
        /\ Cardinality(Mutations(Input, Output)) = 1

\* C18 witness: the call returns an added delivery after the loop went
\* round at least once.
C18_Witness ==
    /\ nb.pc = "returned"
    /\ nb.reselected
    /\ Mutations(Input, Output) = {"delivery added"}

\* One of the four operators has an outcome on sched that is a schedule.
CanSucceed(gen, sched) ==
    \E action_index \in 0..3 :
        \E r \in try_action(gen, sched, action_index) : r.kind = "some"

\* C17 as claimed: under fair random choices a call of
\* get_schedule_neighbour with num_tries_per_action >= 1 returns at some
\* point if one of the four operators can succeed on the input, and it
\* returns only if one can: from an input on which none succeeds it never
\* returns.
C17_ReturnsIffCanSucceed ==
    /\ (/\ nb.pc = "select"
        /\ nb.num_tries_per_action >= 1
        /\ CanSucceed(generator, schedule))
           ~> (nb.pc = "returned")
    /\ [](nb.pc = "returned" => CanSucceed(generator, Input))

\* The <<truck, cargo>> pairs of the pickups, of the dropoffs and of
\* scheduled_cargo_truck of a schedule.
PickedUp(sched) ==
    UNION {{<<truck, cargo>> :
              cargo \in UNION {sched.truck_checkpoints[truck][k].pickup_cargo :
                                 k \in 1..Len(sched.truck_checkpoints[truck])}} :
             truck \in DOMAIN sched.truck_checkpoints}

DroppedOff(sched) ==
    UNION {{<<truck, cargo>> :
              cargo \in UNION {sched.truck_checkpoints[truck][k].dropoff_cargo :
                                 k \in 1..Len(sched.truck_checkpoints[truck])}} :
             truck \in DOMAIN sched.truck_checkpoints}

Recorded(sched) ==
    {<<sched.scheduled_cargo_truck[cargo], cargo>> :
       cargo \in DOMAIN sched.scheduled_cargo_truck}

\* No delivery of the schedule is half-made.
Complete(sched) ==
    /\ PickedUp(sched) = Recorded(sched)
    /\ DroppedOff(sched) = Recorded(sched)

\* C11: from the call of get_schedule_neighbour on, through every try of
\* every operator, successful, failed part-way or aborted, the caller's
\* schedule is the input of the call; what the call returns is a complete
\* schedule.
C11_InputUnchanged ==
    nb.pc # "idle" =>
        /\ schedule = Input
        /\ (nb.pc = "returned" => Complete(Output))

\* C11 witness: add-delivery has rescheduled the pickup checkpoint in its
\* copy and then failed; the half-made copy is dropped and the loop goes
\* on with the input.
C11_Witness ==
    /\ nb.pc = "try"
    /\ nb.dropped.kind = "some"
    /\ ~Complete(nb.dropped.value)
    /\ schedule = Input


---------------------------------------------------------------------------
(* counter_mapper.rs: a mapper fed ids one call at a time                  *)

MaxIds == 4

\* The ids offered to the mapper; none of them is an index.
Ids == {10 * i : i \in 1..MaxIds}

MapperInit ==
    /\ args = Unbuilt
    /\ generator = Unbuilt
    /\ schedule = Unbuilt
    /\ nb = NoCall
    /\ counter_mapper = mapper_new
    /\ interval_chain = chain_new
    /\ last = [op |-> "new", seen |-> <<>>]

\* One call of add_or_find; `seen` lists the distinct ids offered so far in
\* the order of their first call.
AddOrFind(new_item) ==
    /\ LET result == add_or_find(counter_mapper, new_item)
           seen == last.seen
       IN  /\ counter_mapper' = result.mapper
           /\ last' = [op |-> "add_or_find", item |-> new_item,
                       before |-> counter_mapper, index |-> result.index,
                       seen |-> IF \E k \in 1..Len(seen) : seen[k] = new_item
                                THEN seen ELSE Append(seen, new_item)]
    /\ UNCHANGED <<args, generator, schedule, nb, interval_chain>>

MapperNext == \E new_item \in Ids : AddOrFind(new_item)

SpecMapper == MapperInit /\ [][MapperNext]_vars

\* map and reverse_map are inverse bijections between the ids seen and
\* 0..counter-1, numbered in the order the ids were first seen.
DenseBijection(m, seen) ==
    /\ m.counter = Len(seen)
    /\ DOMAIN m.map = 0..(m.counter - 1)
    /\ DOMAIN m.reverse_map = {seen[k] : k \in 1..Len(seen)}
    /\ \A k \in 1..Len(seen) :
           /\ m.map[k - 1] = seen[k]
           /\ m.reverse_map[seen[k]] = k - 1

\* C23: the mapper's two maps are mutually inverse bijections between the
\* ids seen and 0..counter-1 in first-seen order; add_or_find of an id seen
\* before returns its index and changes nothing, and of a new id returns the
\* old counter and increments the counter by one.
C23_DenseFirstSeen ==
    /\ DenseBijection(counter_mapper, last.seen)
    /\ last.op = "add_or_find" =>
           IF last.item \in DOMAIN last.before.reverse_map
           THEN /\ last.index = last.before.reverse_map[last.item]
                /\ counter_mapper = last.before
           ELSE /\ last.index = last.before.counter
                /\ counter_mapper.counter = last.before.counter + 1
                /\ counter_mapper.map[last.index] = last.item
                /\ counter_mapper.reverse_map[last.item] = last.index

\* C23 witness: with three ids in the mapper, the second one is offered
\* again.
C23_Witness ==
    /\ last.op = "add_or_find"
    /\ counter_mapper.counter = 3
    /\ last.item \in DOMAIN last.before.reverse_map
    /\ last.index = 1


---------------------------------------------------------------------------
(* intervals.rs: a chain built by try_add and queried                      *)

MaxTime == 4

MaxIntervals == 3

\* Every IntervalWithData::new(start, end, data) that is Some, on the times
\* 0..MaxTime.
IntervalsWith(data) ==
    {interval_new(w[1], w[2], data).value :
        w \in {w \in (0..MaxTime) \X (0..MaxTime) : w[1] < w[2]}}

\* The intervals offered to try_add carry their own end points as data.
Labelled ==
    {[start_time |-> i.start_time, end_time |-> i.end_time,
      additional_data |-> <<i.start_time, i.end_time>>] :
        i \in IntervalsWith(Unit)}

\* "A list of non-overlapping intervals in an increasing order".
Increasing(c) ==
    \A k \in 1..(Len(c) - 1) : c[k].end_time <= c[k + 1].start_time

\* The chains of plain intervals handed over as `other`.
OtherChains ==
    UNION {{c \in [1..n -> IntervalsWith(Unit)] : Increasing(c)} :
              n \in 0..MaxIntervals}

ChainInit ==
    /\ args = Unbuilt
    /\ generator = Unbuilt
    /\ schedule = Unbuilt
    /\ nb = NoCall
    /\ counter_mapper = mapper_new
    /\ interval_chain = chain_new
    /\ last = [op |-> "new"]

\* The queries leave the chain as it is.
Queried(call) ==
    /\ last' = call
    /\ UNCHANGED <<args, generator, schedule, nb, counter_mapper,
                   interval_chain>>

TryAdd(new_interval) ==
    /\ Len(interval_chain) < MaxIntervals
    /\ LET result == try_add(interval_chain, new_interval)
       IN  /\ interval_chain' = result.chain
           /\ last' = [op |-> "try_add", self |-> interval_chain,
                       new |-> new_interval, ok |-> result.ok]
    /\ UNCHANGED <<args, generator, schedule, nb, counter_mapper>>

Intersect(other) ==
    Queried([op |-> "intersect", self |-> interval_chain, other |-> other,
             result |-> intersect(interval_chain, other)])

ContainedIn(other) ==
    Queried([op |-> "contained_in", self |-> interval_chain, other |-> other,
             result |-> contained_in(interval_chain, other)])

Gaps(other) ==
    Queried([op |-> "gaps", self |-> interval_chain, other |-> other,
             result |-> gaps(interval_chain, other)])

IntersectAll(chains) ==
    Queried([op |-> "intersect_all", chains |-> chains,
             result |-> intersect_all(chains)])

\* The sequences of chains handed to intersect_all.
ChainLists(c) ==
    {<<>>, <<c>>} \cup {<<c, o>> : o \in OtherChains}
                  \cup {<<o, c>> : o \in OtherChains}

ChainNext ==
    \/ \E new_interval \in Labelled : TryAdd(new_interval)
    \/ \E other \in OtherChains : Intersect(other)
    \/ \E other \in IntervalsWith(Unit) : ContainedIn(other)
    \/ \E other \in IntervalsWith(Unit) : Gaps(other)
    \/ \E chains \in ChainLists(interval_chain) : IntersectAll(chains)

SpecChain == ChainInit /\ [][ChainNext]_vars


---------------------------------------------------------------------------
(* Claims about interval chains                                            *)

\* Sorted, neither touching nor overlapping, every interval of positive
\* length.
WellFormed(c) ==
    /\ \A k \in 1..Len(c) : c[k].start_time < c[k].end_time
    /\ \A k \in 1..(Len(c) - 1) : c[k].end_time < c[k + 1].start_time

\* The end points of a chain, without the data.
EndPoints(c) == [k \in 1..Len(c) |-> <<c[k].start_time, c[k].end_time>>]

\* C24: intersect of two well-formed chains covers exactly the times the
\* two have in common, every piece carries the data of the interval of
\* self it lies in, and the result is empty when the chains are disjoint
\* or one of them is empty.
C24_IntersectCommonPoints ==
    (/\ last.op = "intersect"
     /\ WellFormed(last.self)
     /\ WellFormed(last.other)) =>
        LET common == ChainTimes(last.self) \cap ChainTimes(last.other)
        IN  /\ ChainTimes(last.result) = common
            /\ common = {} => last.result = <<>>
            /\ \A k \in 1..Len(last.result) :
                   \E j \in 1..Len(last.self) :
                       /\ last.self[j].start_time <= last.result[k].start_time
                       /\ last.result[k].end_time <= last.self[j].end_time
                       /\ last.result[k].additional_data
                              = last.self[j].additional_data


\* C25: gaps of a well-formed chain within an interval covers exactly the
\* times of the interval that the chain does not cover, in gaps of positive
\* length; it is empty when the chain covers the interval.
C25_GapsAreTheComplement ==
    (last.op = "gaps" /\ WellFormed(last.self)) =>
        LET within == last.other.start_time..(last.other.end_time - 1)
        IN  /\ ChainTimes(last.result) = within \ ChainTimes(last.self)
            /\ \A k \in 1..Len(last.result) :
                   last.result[k].start_time < last.result[k].end_time
            /\ within \subseteq ChainTimes(last.self) => last.result = <<>>

\* C26: contained_in, asked of a well-formed chain, is true exactly when
\* every interval of the chain lies inside the given interval (so it is
\* true of the empty chain).
C26_ContainedInEveryInterval ==
    (last.op = "contained_in" /\ WellFormed(last.self)) =>
        (last.result <=>
            \A k \in 1..Len(last.self) :
                /\ last.other.start_time <= last.self[k].start_time
                /\ last.self[k].end_time <= last.other.end_time)

\* Two intervals have a time in common.
Overlap(i, j) == i.start_time < j.end_time /\ j.start_time < i.end_time

\* C27: try_add on a well-formed chain returns false, leaving the chain as
\* it was, exactly when the new interval overlaps an interval of the chain;
\* otherwise it returns true and the chain is the old chain with the new
\* interval at its sorted position.
C27_TryAddRejectsOverlap ==
    (last.op = "try_add" /\ WellFormed(last.self)) =>
        LET overlaps == \E k \in 1..Len(last.self) :
                            Overlap(last.self[k], last.new)
        IN  /\ last.ok <=> ~overlaps
            /\ ~last.ok => interval_chain = last.self
            /\ last.ok =>
                   /\ \E i \in 0..Len(last.self) :
                          interval_chain = VecInsert(last.self, i, last.new)
                   /\ \A k \in 1..(Len(interval_chain) - 1) :
                          interval_chain[k].start_time
                              < interval_chain[k + 1].start_time

\* C28: the chain built by try_add calls from the empty chain, and every
\* chain that intersect, gaps or intersect_all returns on it, is sorted,
\* with every end strictly below the next start and every interval of
\* positive length.
C28_ChainsWellFormed ==
    /\ WellFormed(interval_chain)
    /\ last.op \in {"intersect", "gaps", "intersect_all"} =>
           WellFormed(last.result)

RECURSIVE CommonTimes(_)
CommonTimes(chains) ==
    IF Len(chains) = 1
    THEN ChainTimes(chains[1])
    ELSE ChainTimes(chains[1]) \cap CommonTimes(Tail(chains))

\* C29: intersect_all of well-formed chains covers exactly the times common
\* to all of them; of no chain at all it is the chain holding
\* [Time::MIN, Time::MAX), and of a single chain it has exactly the
\* intervals of that chain.
C29_IntersectAllCommonPoints ==
    (/\ last.op = "intersect_all"
     /\ \A k \in 1..Len(last.chains) : WellFormed(last.chains[k])) =>
        /\ last.chains = <<>> =>
               EndPoints(last.result) = <<<<TimeMIN, TimeMAX>>>>
        /\ last.chains # <<>> =>
               ChainTimes(last.result) = CommonTimes(last.chains)
        /\ Len(last.chains) = 1 =>
               EndPoints(last.result) = EndPoints(last.chains[1])


---------------------------------------------------------------------------
(* Claims about the schedule's look-ups                                    *)

StrictlyIncreasing(checkpoints) ==
    \A k \in 1..(Len(checkpoints) - 1) :
        checkpoints[k].time < checkpoints[k + 1].time

\* The pair get_checkpoints_around_gap should return when the time falls
\* after the first j checkpoints.
SplitAt(checkpoints, j) ==
    <<IF j = 0 THEN None ELSE Some(checkpoints[j]),
      IF j = Len(checkpoints) THEN None ELSE Some(checkpoints[j + 1])>>

\* C30: for a truck whose checkpoint times strictly increase, and any time
\* t, get_checkpoints_around_gap returns two neighbours of the list (or the
\* missing neighbour at either end) with prev.time <= t < next.time; when t
\* is the time of a checkpoint, that checkpoint is prev and its successor
\* is next.
C30_AroundGap ==
    \A truck \in DOMAIN schedule.truck_checkpoints :
        LET checkpoints == schedule.truck_checkpoints[truck]
        IN  StrictlyIncreasing(checkpoints) =>
                \A t \in 0..Horizon :
                    \E j \in 0..Len(checkpoints) :
                        /\ get_checkpoints_around_gap(schedule, truck, t)
                               = SplitAt(checkpoints, j)
                        /\ j > 0 => checkpoints[j].time <= t
                        /\ j < Len(checkpoints) => t < checkpoints[j + 1].time
                        /\ \A k \in 1..Len(checkpoints) :
                               checkpoints[k].time = t => j = k

\* C30 witness: a truck has three checkpoints and the time asked for is
\* the time of the second; the second and third are returned.
C30_Witness ==
    \E truck \in DOMAIN schedule.truck_checkpoints :
        LET checkpoints == schedule.truck_checkpoints[truck]
        IN  /\ Len(checkpoints) >= 3
            /\ StrictlyIncreasing(checkpoints)
            /\ get_checkpoints_around_gap(schedule, truck, checkpoints[2].time)
                   = <<Some(checkpoints[2]), Some(checkpoints[3])>>


---------------------------------------------------------------------------
(* Claims about the constructor's errors                                   *)

\* The (start, end) pairs of the arguments that go through
\* interval_or_error.
IntervalArguments ==
    {args.planning_period}
    \cup {<<args.terminal_data[k].opening_time,
            args.terminal_data[k].closing_time>> :
              k \in 1..Len(args.terminal_data)}
    \cup {<<args.booking_data[k].pickup_open_time,
            args.booking_data[k].pickup_close_time>> :
              k \in 1..Len(args.booking_data)}
    \cup {<<args.booking_data[k].dropoff_open_time,
            args.booking_data[k].dropoff_close_time>> :
              k \in 1..Len(args.booking_data)}

\* The terminals named by trucks and bookings.
ReferencedTerminals ==
    {args.truck_data[k].starting_terminal : k \in 1..Len(args.truck_data)}
    \cup {args.booking_data[k].from_terminal : k \in 1..Len(args.booking_data)}
    \cup {args.booking_data[k].to_terminal : k \in 1..Len(args.booking_data)}

KnownTerminals ==
    {args.terminal_data[k].id : k \in 1..Len(args.terminal_data)}

\* C21: the constructor returns an error, and no generator, whenever the
\* planning period, an opening window or a pickup or dropoff window has
\* start >= end (also in a booking that would be dropped); when every
\* interval has start < end and every terminal named is in terminal_data,
\* it returns a generator.
C21_InvalidIntervalIsError ==
    last.op = "new" =>
        /\ (\E w \in IntervalArguments : w[1] >= w[2]) =>
               last.kind = "err" /\ generator = Unbuilt
        /\ ((\A w \in IntervalArguments : w[1] < w[2])
              /\ ReferencedTerminals \subseteq KnownTerminals) =>
               last.kind = "ok" /\ generator # Unbuilt


\* The terminals an operator or scores can hand to get_driving_time: truck
\* starts, checkpoint terminals and the terminals of the bookings kept.
TerminalsInUse ==
    {generator.truck_data[truck].starting_terminal :
        truck \in DOMAIN generator.truck_data}
    \cup UNION {{schedule.truck_checkpoints[truck][k].terminal :
                    k \in 1..Len(schedule.truck_checkpoints[truck])} :
                truck \in DOMAIN schedule.truck_checkpoints}
    \cup UNION {{generator.cargo_booking_info[cargo].from,
                 generator.cargo_booking_info[cargo].to} :
                cargo \in DOMAIN generator.cargo_booking_info}

\* set_driving_times gave an entry for every ordered pair of distinct
\* terminals of get_terminal_ids.
MatrixComplete ==
    \A from \in generator.terminals : \A to \in generator.terminals :
        from # to => <<from, to>> \in DOMAIN generator.driving_times_cache

\* C22: with a matrix given for every ordered pair of distinct terminals of
\* get_terminal_ids, every terminal of a checkpoint, a truck start or a kept
\* booking is one of get_terminal_ids, so no look-up an operator or scores
\* can make on a reachable schedule misses the cache; a look-up from a
\* terminal to itself is 0 whatever the cache holds.
C22_NoMissingPair ==
    MatrixComplete =>
        /\ TerminalsInUse \subseteq generator.terminals
        /\ \A from \in TerminalsInUse : \A to \in TerminalsInUse :
               LET out == cache_get_driving_time(generator.driving_times_cache,
                                                 from, to)
               IN  /\ out.kind = "some"
                   /\ from = to => out.value = 0
        /\ Panic \notin scores_lookups(generator, schedule)

\* C22 witness: a delivery is scheduled on a truck with two checkpoints,
\* and the matrix holds a non-zero entry from the first checkpoint's
\* terminal to itself, which the look-up does not use.
C22_Witness ==
    /\ MatrixComplete
    /\ DOMAIN schedule.scheduled_cargo_truck # {}
    /\ \E truck \in DOMAIN schedule.truck_checkpoints :
           LET checkpoints == schedule.truck_checkpoints[truck]
           IN  /\ Len(checkpoints) >= 2
               /\ generator.driving_times_cache[
                      <<checkpoints[1].terminal, checkpoints[1].terminal>>] > 0
               /\ cache_get_driving_time(generator.driving_times_cache,
                      checkpoints[1].terminal, checkpoints[1].terminal)
                      = Some(0)


---------------------------------------------------------------------------
(* Claims about the operators' steps                                       *)

\* C31: the driving gap for a new terminal X between prev and next on a
\* truck is the interval [prev_t + d1, next_t - d2) when that is of positive
\* length and none in every other case, also when d2 exceeds next_t.
C31_DrivingGap ==
    \A truck \in DOMAIN schedule.truck_checkpoints :
        \A t \in 0..Horizon : \A X \in generator.terminals :
            LET around == get_checkpoints_around_gap(schedule, truck, t)
                prev == around[1]
                next == around[2]
                prev_t == IF prev.kind = "some" THEN prev.value.time
                          ELSE generator.planning_period.start_time
                next_t == IF next.kind = "some" THEN next.value.time
                          ELSE generator.planning_period.end_time
                from == IF prev.kind = "some" THEN prev.value.terminal
                        ELSE generator.truck_data[truck].starting_terminal
                d1 == IF from = X THEN 0
                      ELSE generator.driving_times_cache[<<from, X>>]
                d2 == IF next.kind = "none" \/ next.value.terminal = X THEN 0
                      ELSE generator.driving_times_cache[
                               <<X, next.value.terminal>>]
                out == get_driving_time_constraints(generator, truck, prev,
                                                    next, X)
            IN  IF prev_t + d1 < next_t - d2
                THEN out = Some([start_time |-> prev_t + d1,
                                 end_time |-> next_t - d2,
                                 additional_data |-> Unit])
                ELSE out = None


\* The cargo with a kept booking that the current schedule has not
\* scheduled.
Unscheduled == (DOMAIN generator.cargo_booking_info) \ Scheduled

\* The checkpoint at position k of a list is at the from-terminal of an
\* unscheduled cargo, or at the to-terminal of an unscheduled cargo whose
\* from-terminal the list visits before position k.
ServesUnscheduled(checkpoints, k) ==
    \E cargo \in Unscheduled :
        LET info == generator.cargo_booking_info[cargo]
        IN  \/ checkpoints[k].terminal = info.from
            \/ /\ checkpoints[k].terminal = info.to
               /\ \E j \in 1..(k - 1) : checkpoints[j].terminal = info.from

\* The checkpoint at position k of a truck's list differs in terminal from
\* both ends of its gap, the truck's start being the left end of the first.
DiffersFromGapEnds(truck, checkpoints, k) ==
    /\ checkpoints[k].terminal #
           (IF k = 1 THEN generator.truck_data[truck].starting_terminal
            ELSE checkpoints[k - 1].terminal)
    /\ k < Len(checkpoints) =>
           checkpoints[k].terminal # checkpoints[k + 1].terminal

\* C33: every checkpoint that add-checkpoint inserts is at the from-terminal
\* of a cargo unscheduled in the input, or at the to-terminal of an
\* unscheduled cargo whose from-terminal the truck visits earlier; its
\* terminal is that of neither end of its gap; and add-checkpoint returns
\* none when every kept cargo is scheduled.
C33_InsertedTerminal ==
    [](/\ \A sched \in AddedCheckpoints : \A chosen \in InsertedAt(sched) :
              LET checkpoints == sched.truck_checkpoints[chosen[1]]
              IN  /\ ServesUnscheduled(checkpoints, chosen[2])
                  /\ DiffersFromGapEnds(chosen[1], checkpoints, chosen[2])
       /\ Unscheduled = {} =>
              add_random_checkpoint(generator, schedule) \subseteq {None})

\* C33 witness: add-checkpoint can insert, after a visit of the cargo's
\* from-terminal, a checkpoint at the to-terminal of an unscheduled cargo
\* that is the from-terminal of no unscheduled cargo.
C33_Witness ==
    \E sched \in AddedCheckpoints : \E chosen \in InsertedAt(sched) :
        LET checkpoints == sched.truck_checkpoints[chosen[1]]
        IN  /\ chosen[2] >= 2
            /\ \A cargo \in Unscheduled :
                   generator.cargo_booking_info[cargo].from
                       # checkpoints[chosen[2]].terminal
            /\ \E cargo \in Unscheduled :
                   generator.cargo_booking_info[cargo].to
                       = checkpoints[chosen[2]].terminal


\* The terminal on the left of position k of a truck's list: the
\* predecessor's, or the truck's starting terminal for the first checkpoint.
LeftTerminal(truck, k) ==
    IF k = 1 THEN generator.truck_data[truck].starting_terminal
    ELSE Checkpoints(truck)[k - 1].terminal

\* A checkpoint of the truck in sched, at the same terminal, still lists
\* the cargo the way checkpoint listed it.
StillCarried(sched, truck, checkpoint, cargo) ==
    \E k \in 1..Len(sched.truck_checkpoints[truck]) :
        LET kept == sched.truck_checkpoints[truck][k]
        IN  /\ kept.terminal = checkpoint.terminal
            /\ cargo \in checkpoint.pickup_cargo => cargo \in kept.pickup_cargo
            /\ cargo \in checkpoint.dropoff_cargo =>
                   cargo \in kept.dropoff_cargo

\* C34: remove-checkpoint succeeds only on a checkpoint without pickups and
\* dropoffs whose left neighbour's terminal (the truck's start for the first
\* checkpoint) differs from its successor's terminal; and no operator
\* removes a checkpoint that carries a pickup or dropoff of a cargo that
\* stays scheduled.
C34_RemoveCheckpointGuards ==
    /\ [](\A chosen \in get_random_checkpoint(schedule) :
              LET checkpoints == Checkpoints(chosen[1])
                  k == chosen[2]
              IN  remove_checkpoint_at(generator, schedule, chosen[1],
                                       k).kind = "some" =>
                      /\ checkpoints[k].pickup_cargo = {}
                      /\ checkpoints[k].dropoff_cargo = {}
                      /\ k < Len(checkpoints) =>
                             LeftTerminal(chosen[1], k)
                                 # checkpoints[k + 1].terminal)
    /\ [][\A truck \in Trucks : \A k \in 1..Len(Checkpoints(truck)) :
              \A cargo \in (Checkpoints(truck)[k].pickup_cargo
                              \cup Checkpoints(truck)[k].dropoff_cargo) :
                  cargo \in DOMAIN schedule'.scheduled_cargo_truck =>
                      StillCarried(schedule', truck, Checkpoints(truck)[k],
                                   cargo)]_vars

\* C34 witness: remove-checkpoint has removed a checkpoint of a truck that
\* keeps a checkpoint with a pickup, and would refuse another checkpoint
\* because its two neighbours are at one terminal.
C34_Witness ==
    /\ LastWas("remove_random_checkpoint", "some")
    /\ Scheduled # {}
    /\ \E chosen \in get_random_checkpoint(schedule) :
           /\ Checkpoints(chosen[1])[chosen[2]].pickup_cargo = {}
           /\ Checkpoints(chosen[1])[chosen[2]].dropoff_cargo = {}
           /\ remove_checkpoint_at(generator, schedule, chosen[1],
                                   chosen[2]) = None


\* The outcomes of the operator an action index stands for.
OperatorOf(action_index) ==
    CASE action_index = 0 -> remove_random_checkpoint(generator, schedule)
      [] action_index = 1 -> add_random_checkpoint(generator, schedule)
      [] action_index = 2 -> remove_random_delivery(generator, schedule)
      [] action_index = 3 -> add_random_delivery(generator, schedule)

\* The call is inside the for loop of get_schedule_neighbour.
Trying == nb.pc \in {"try", "delivery"}

\* C35: get_schedule_neighbour draws an index from 0..3 (0 remove-checkpoint,
\* 1 add-checkpoint, 2 remove-delivery, 3 add-delivery), attempts only that
\* operator, at most num_tries_per_action times in a row, returns at the
\* first success, and draws a new index only after num_tries_per_action
\* failures in a row; with num_tries_per_action = 0 no operator is attempted
\* and the call never returns.
C35_NeighbourProtocol ==
    /\ [](nb.pc # "idle" =>
              /\ nb.tries \in 0..nb.num_tries_per_action
              /\ nb.action_index \in 0..3
              /\ nb.pc = "delivery" => nb.tries < nb.num_tries_per_action
              /\ nb.num_tries_per_action = 0 =>
                     /\ nb.pc \in {"select", "try"}
                     /\ nb.tries = 0
                     /\ nb.out = None)
    /\ [][/\ (nb.pc = "select" /\ nb'.pc # "select") =>
                 nb'.pc = "try" /\ nb'.tries = 0
          /\ (Trying /\ nb'.pc = "select") =>
                 nb.tries = nb.num_tries_per_action
          /\ (Trying /\ nb'.pc \in {"try", "delivery", "returned"}) =>
                 /\ nb'.action_index = nb.action_index
                 /\ nb'.tries \in {nb.tries, nb.tries + 1}
          /\ (Trying /\ nb'.pc = "returned") =>
                 /\ nb.tries < nb.num_tries_per_action
                 /\ nb'.tries = nb.tries
                 /\ nb'.out \in {r \in OperatorOf(nb.action_index) :
                                   r.kind = "some"}
          /\ (Trying /\ nb'.pc = "try" /\ nb'.tries = nb.tries + 1) =>
                 /\ nb.tries < nb.num_tries_per_action
                 /\ \E r \in OperatorOf(nb.action_index) :
                        r.kind = "none" \/ ~WithinBounds(r)]_vars

\* C35 witness: with num_tries_per_action = 2 the first index failed twice,
\* a new index was drawn, and its second try returns a schedule.
C35_Witness ==
    /\ nb.pc = "returned"
    /\ nb.num_tries_per_action = 2
    /\ nb.reselected
    /\ nb.tries = 1


\* C36: remove-delivery returns none exactly when scheduled_cargo_truck is
\* empty; on a schedule with a scheduled cargo it succeeds for whichever
\* (cargo, truck) entry is drawn, no assertion failing, and the result no
\* longer schedules that cargo.
C36_RemoveDeliverySucceeds ==
    /\ (None \in remove_random_delivery(generator, schedule)) <=>
           (Scheduled = {})
    /\ \A r \in remove_random_delivery(generator, schedule) :
           r.kind # "panic"
    /\ \A cargo \in Scheduled :
           LET r == remove_delivery_of(generator, schedule, cargo,
                                       schedule.scheduled_cargo_truck[cargo])
           IN  /\ r \in remove_random_delivery(generator, schedule)
               /\ r.kind = "some"
               /\ DOMAIN r.value.scheduled_cargo_truck = Scheduled \ {cargo}

\* C36 witness: remove-delivery has removed one of two scheduled cargo and
\* has a schedule to return for the one that is left.
C36_Witness ==
    /\ LastWas("remove_random_delivery", "some")
    /\ Scheduled # {}
    /\ \E r \in remove_random_delivery(generator, schedule) :
           r.kind = "some"


\* No truck of the schedule has a checkpoint.
NoCheckpoints(sched) ==
    \A truck \in DOMAIN sched.truck_checkpoints :
        sched.truck_checkpoints[truck] = <<>>

\* Every kept cargo starts at the starting terminal of every truck.
CargoOnlyAtStart ==
    \A cargo \in DOMAIN generator.cargo_booking_info :
        \A truck \in DOMAIN generator.truck_data :
            generator.cargo_booking_info[cargo].from
                = generator.truck_data[truck].starting_terminal

\* C37: on a schedule without checkpoints remove-checkpoint, remove-delivery
\* and add-delivery return none, so a neighbour of it comes from
\* add-checkpoint; when every kept cargo starts at the starting terminal of
\* every truck add-checkpoint returns none as well and the schedule has no
\* neighbour.
C37_EmptyScheduleNeighbours ==
    /\ NoCheckpoints(schedule) =>
           /\ remove_random_checkpoint(generator, schedule) = {None}
           /\ remove_random_delivery(generator, schedule) = {None}
           /\ add_random_delivery(generator, schedule) = {None}
           /\ CargoOnlyAtStart =>
                  add_random_checkpoint(generator, schedule) = {None}
    /\ (nb.pc = "returned" /\ NoCheckpoints(Input)) =>
           /\ nb.action_index = 1
           /\ OneCheckpointInserted(Input, Output)
           /\ ~CargoOnlyAtStart

\* C37 witness: on the empty schedule of an instance whose only cargo starts
\* where the only truck starts, every operator was tried and a new index
\* is being drawn.
C37_Witness ==
    /\ nb.pc = "select"
    /\ nb.reselected
    /\ nb.num_tries_per_action > 0
    /\ NoCheckpoints(schedule)
    /\ CargoOnlyAtStart


\* C38: a successful add-delivery of a cargo on a truck, picked up at
\* checkpoint i and dropped off at a later checkpoint j, changes only the
\* times of checkpoints i and j, the pickup set of i and the dropoff set of
\* j (each gains exactly that cargo), the available capacity of the
\* checkpoints from i up to j, and the cargo's entry in
\* scheduled_cargo_truck; the trucks, the number, order and terminals of
\* the checkpoints, the other trucks' checkpoints, the other entries and
\* all truck_driving_times stay the same.
C38_AddDeliveryFrame ==
    [](\A R \in AddedDeliveries :
           /\ Cardinality(NewCargo(R)) = 1
           /\ DOMAIN R.truck_checkpoints = Trucks
           /\ DOMAIN R.truck_driving_times
                  = DOMAIN schedule.truck_driving_times
           /\ OneDeliveryAdded(schedule, R))

\* C38 witness: add-delivery has scheduled a second cargo on a truck, at a
\* dropoff checkpoint that already had a dropoff.
C38_Witness ==
    /\ LastWas("add_random_delivery", "some")
    /\ \E truck \in Trucks : \E k \in 1..Len(Checkpoints(truck)) :
           Cardinality(Checkpoints(truck)[k].dropoff_cargo) = 2


\* C39: the first checkpoint of each truck is no earlier than the truck's
\* start_time (the opening time of its starting terminal) plus the drive
\* from the starting terminal to the checkpoint's terminal, and no
\* checkpoint of the truck is before its start_time.
C39_AfterTruckStart ==
    \A truck \in Trucks :
        LET data == generator.truck_data[truck]
            checkpoints == Checkpoints(truck)
        IN  /\ checkpoints # <<>> =>
                   checkpoints[1].time >=
                       data.start_time
                           + drive(data.starting_terminal,
                                   checkpoints[1].terminal)
            /\ \A k \in 1..Len(checkpoints) :
                   checkpoints[k].time >= data.start_time


\* C40: after construction, also from a booking list that repeats a cargo
\* id, cargo c is in cargo_by_terminals[(f, t)] exactly when
\* cargo_booking_info[c] has from = f and to = t, and cargo_booking_info,
\* pickup_times and dropoff_times have the same keys, the windows being
\* those of the booking the stored booking info comes from.
C40_TablesAgree ==
    Constructed =>
        /\ \A key \in DOMAIN generator.cargo_by_terminals :
               \A cargo \in generator.cargo_by_terminals[key] :
                   /\ cargo \in DOMAIN generator.cargo_booking_info
                   /\ generator.cargo_booking_info[cargo].from = key[1]
                   /\ generator.cargo_booking_info[cargo].to = key[2]
        /\ \A cargo \in DOMAIN generator.cargo_booking_info :
               LET key == <<generator.cargo_booking_info[cargo].from,
                            generator.cargo_booking_info[cargo].to>>
               IN  /\ key \in DOMAIN generator.cargo_by_terminals
                   /\ cargo \in generator.cargo_by_terminals[key]
        /\ DOMAIN generator.pickup_times
               = DOMAIN generator.cargo_booking_info
        /\ DOMAIN generator.dropoff_times
               = DOMAIN generator.cargo_booking_info
        /\ \A cargo \in DOMAIN generator.cargo_booking_info :
               \E booking \in Bookings :
                   /\ CargoIndex(booking.cargo) = cargo
                   /\ TerminalIndex(booking.from_terminal)
                          = generator.cargo_booking_info[cargo].from
                   /\ TerminalIndex(booking.to_terminal)
                          = generator.cargo_booking_info[cargo].to
                   /\ ChainTimes(generator.pickup_times[cargo])
                          = EffectivePickup(booking)
                   /\ ChainTimes(generator.dropoff_times[cargo])
                          = EffectiveDropoff(booking)

===========================================================================
